---- MODULE Spec2Model ----
(***************************************************************************)
(* The logbook cleaner and the document combiner of scripts/ai_cleanup.    *)
(*                                                                         *)
(* Text is a sequence of characters (one-character strings).  The regular *)
(* expressions of the source are kept as data (a small syntax tree) and    *)
(* interpreted by Ends/Search/Sub below, so every pattern of the source    *)
(* appears here pattern for pattern.                                       *)
(***************************************************************************)
EXTENDS Integers, Sequences, FiniteSets, TLC

\* ------------------------------------------------------------ characters

Lowers == <<"a","b","c","d","e","f","g","h","i","j","k","l","m",
            "n","o","p","q","r","s","t","u","v","w","x","y","z">>

Uppers == <<"A","B","C","D","E","F","G","H","I","J","K","L","M",
            "N","O","P","Q","R","S","T","U","V","W","X","Y","Z">>

LowerSet == {Lowers[i] : i \in 1..26}

UpperSet == {Uppers[i] : i \in 1..26}

DigitSet == {"0","1","2","3","4","5","6","7","8","9"}

\* \s : blank, newline, tab
SpaceSet == {" ", "\n", "\t"}

\* \w : letters, digits and the underscore
WordSet == LowerSet \cup UpperSet \cup DigitSet \cup {"_"}

\* str.lower() and str.upper() on one character
LowerOf == [c \in UpperSet |-> Lowers[CHOOSE i \in 1..26 : Uppers[i] = c]]

UpperOf == [c \in LowerSet |-> Uppers[CHOOSE i \in 1..26 : Lowers[i] = c]]

ToLower(c) == IF c \in UpperSet THEN LowerOf[c] ELSE c

ToUpper(c) == IF c \in LowerSet THEN UpperOf[c] ELSE c

StrLower(s) == [i \in 1..Len(s) |-> ToLower(s[i])]

\* ------------------------------------------------------ regular expressions

\* flags of a re call
NoFlags == [ic |-> FALSE, ml |-> FALSE]

IC == [ic |-> TRUE, ml |-> FALSE]

ML == [ic |-> FALSE, ml |-> TRUE]

ICML == [ic |-> TRUE, ml |-> TRUE]

\* pattern constructors
Cls(cs) == [k |-> "cls", cs |-> cs]

NCls(cs) == [k |-> "ncls", cs |-> cs]

Cat(rs) == [k |-> "cat", rs |-> rs]

Alt(rs) == [k |-> "alt", rs |-> rs]

Rep(r, lo, hi) == [k |-> "rep", r |-> r, lo |-> lo, hi |-> hi]

\* an upper count of -1 is no upper count (* and +)
Star(r) == Rep(r, 0, -1)

Plus(r) == Rep(r, 1, -1)

Opt(r) == Rep(r, 0, 1)

Bol == [k |-> "bol"]

Eol == [k |-> "eol"]

Wb == [k |-> "wb"]

Ahead(r) == [k |-> "ahead", r |-> r]

Ch(c) == Cls({c})

\* a literal word
Lit(w) == Cat([i \in 1..Len(w) |-> Ch(w[i])])

\* \s \d \w and the common classes
S == Cls(SpaceSet)

D == Cls(DigitSet)

W == Cls(WordSet)

AZ == Cls(UpperSet)

az == Cls(LowerSet)

InCls(c, cs, ic) == c \in cs \/ (ic /\ (ToLower(c) \in cs \/ ToUpper(c) \in cs))

IsWordAt(s, i) == i >= 1 /\ i <= Len(s) /\ s[i] \in WordSet

\* whether the character class r (a "cls" or "ncls" pattern) takes s[n]
Takes(r, s, n, f) ==
    IF r.k = "cls" THEN InCls(s[n], r.cs, f.ic) ELSE ~InCls(s[n], r.cs, f.ic)

\* the end of the longest run of characters of class r that starts at s[i]
RunStop(r, s, i, f) ==
    CHOOSE p \in i..(Len(s) + 1) :
        /\ \A n \in i..(p - 1) : Takes(r, s, n, f)
        /\ (p = Len(s) + 1 \/ ~Takes(r, s, p, f))

\* r{lo,hi} for a character class r: every end from lo characters to the
\* whole run, or to hi characters
RunEnds(r, lo, hi, s, i, f) ==
    LET stop == RunStop(r, s, i, f)
    IN  {p \in (i + lo)..stop : hi < 0 \/ p - i <= hi}

RECURSIVE Ends(_, _, _, _)
RECURSIVE CatEnds(_, _, _, _, _)
RECURSIVE RepEnds(_, _, _, _, _, _, _)

\* Ends(r, s, i, f): the positions where a match of r that starts before
\* s[i] can end (a position p is the place before s[p]; Len(s)+1 is the end).
Ends(r, s, i, f) ==
    CASE r.k = "cls" ->
            IF i <= Len(s) /\ InCls(s[i], r.cs, f.ic) THEN {i + 1} ELSE {}
      [] r.k = "ncls" ->
            IF i <= Len(s) /\ ~InCls(s[i], r.cs, f.ic) THEN {i + 1} ELSE {}
      [] r.k = "cat" -> CatEnds(r.rs, 1, s, {i}, f)
      [] r.k = "alt" -> UNION {Ends(r.rs[n], s, i, f) : n \in 1..Len(r.rs)}
      [] r.k = "rep" ->
            IF r.r.k \in {"cls", "ncls"} THEN RunEnds(r.r, r.lo, r.hi, s, i, f)
            ELSE RepEnds(r.r, r.lo, r.hi, 0, s, {i}, f)
      [] r.k = "bol" ->
            IF i = 1 \/ (f.ml /\ i > 1 /\ s[i - 1] = "\n") THEN {i} ELSE {}
      [] r.k = "eol" ->
            IF \/ i = Len(s) + 1
               \/ (i = Len(s) /\ s[i] = "\n")
               \/ (f.ml /\ i <= Len(s) /\ s[i] = "\n")
            THEN {i} ELSE {}
      [] r.k = "wb" ->
            IF IsWordAt(s, i - 1) # IsWordAt(s, i) THEN {i} ELSE {}
      [] r.k = "ahead" ->
            IF Ends(r.r, s, i, f) # {} THEN {i} ELSE {}

CatEnds(rs, n, s, cur, f) ==
    IF n > Len(rs) \/ cur = {} THEN cur
    ELSE CatEnds(rs, n + 1, s, UNION {Ends(rs[n], s, e, f) : e \in cur}, f)

RepEnds(r, lo, hi, n, s, cur, f) ==
    LET here == IF n >= lo THEN cur ELSE {}
        next == UNION {Ends(r, s, e, f) \ {e} : e \in cur}
    IN  IF (hi >= 0 /\ n >= hi) \/ next = {} THEN here
        ELSE here \cup RepEnds(r, lo, hi, n + 1, s, next, f)

\* re.search(r, s, flags) is not None
Search(r, s, f) == \E i \in 1..(Len(s) + 1) : Ends(r, s, i, f) # {}

MaxOf(ps) == CHOOSE p \in ps : \A q \in ps : q <= p

\* how re.sub writes a match m back: a fixed text, or the groups of m
Const(t) == [k |-> "const", t |-> t]

ReplText(rp, m) ==
    CASE rp.k = "const" -> rp.t
      [] rp.k = "last" -> <<m[Len(m)]>>
      [] rp.k = "first_sp_last" -> <<m[1], " ", m[Len(m)]>>
      [] rp.k = "nlnl_last" -> <<"\n", "\n", m[Len(m)]>>

\* the first position from pos on where r matches a text that is not empty,
\* 0 if there is none
NextMatch(r, s, f, pos) ==
    IF \E i \in pos..Len(s) : Ends(r, s, i, f) \ {i} # {}
    THEN CHOOSE i \in pos..Len(s) :
            /\ Ends(r, s, i, f) \ {i} # {}
            /\ \A j \in pos..(i - 1) : Ends(r, s, j, f) \ {j} = {}
    ELSE 0

RECURSIVE SubFrom(_, _, _, _, _)
RECURSIVE SubAt(_, _, _, _, _, _)
RECURSIVE SubTo(_, _, _, _, _, _, _)

\* re.sub(r, rp, s, flags): leftmost matches, left to right, not overlapping.
\* No pattern of the source matches the empty text, and for each of them the
\* greedy match is the longest one.
SubFrom(r, rp, s, f, pos) == SubAt(r, rp, s, f, pos, NextMatch(r, s, f, pos))

\* the match at i, 0 for none, is replaced, and the search goes on at its end e
SubAt(r, rp, s, f, pos, i) ==
    IF i = 0 THEN SubSeq(s, pos, Len(s))
    ELSE SubTo(r, rp, s, f, pos, i, MaxOf(Ends(r, s, i, f)))

SubTo(r, rp, s, f, pos, i, e) ==
    SubSeq(s, pos, i - 1) \o ReplText(rp, SubSeq(s, i, e - 1)) \o SubFrom(r, rp, s, f, e)

Sub(r, rp, s, f) == SubFrom(r, rp, s, f, 1)

\* ------------------------------------------------ document_patterns

Dot == NCls({"\n"})

\* DocumentCombiner._create_document_patterns: the types in dict order
DocTypes == <<"letter", "telegram", "report", "list", "narrative">>

LetterStart ==
    <<
    \* ^.*(?:House|Street|Lane|Road),?\s*$
       Cat(<<Bol, Star(Dot), Alt(<<Lit(<<"H","o","u","s","e">>), Lit(<<"S","t","r","e","e","t">>), Lit(<<"L","a","n","e">>), Lit(<<"R","o","a","d">>)>>), Opt(Ch(",")), Star(S), Eol>>),
    \* ^\d{1,2}(?:st|nd|rd|th)?\s+(?:January|February|March|April|May|June|July|August|September|October|November|December)[,\s]+\d{4}
       Cat(<<Bol, Rep(D, 1, 2), Opt(Alt(<<Lit(<<"s","t">>), Lit(<<"n","d">>), Lit(<<"r","d">>), Lit(<<"t","h">>)>>)), Plus(S), Alt(<<Lit(<<"J","a","n","u","a","r","y">>), Lit(<<"F","e","b","r","u","a","r","y">>), Lit(<<"M","a","r","c","h">>), Lit(<<"A","p","r","i","l">>), Lit(<<"M","a","y">>), Lit(<<"J","u","n","e">>), Lit(<<"J","u","l","y">>), Lit(<<"A","u","g","u","s","t">>), Lit(<<"S","e","p","t","e","m","b","e","r">>), Lit(<<"O","c","t","o","b","e","r">>), Lit(<<"N","o","v","e","m","b","e","r">>), Lit(<<"D","e","c","e","m","b","e","r">>)>>), Plus(Cls(SpaceSet \cup {","})), Rep(D, 4, 4)>>),
    \* ^Dear\s+(?:Mr|Mrs|Miss|Dr|Professor)\s+\w+
       Cat(<<Bol, Lit(<<"D","e","a","r">>), Plus(S), Alt(<<Lit(<<"M","r">>), Lit(<<"M","r","s">>), Lit(<<"M","i","s","s">>), Lit(<<"D","r">>), Lit(<<"P","r","o","f","e","s","s","o","r">>)>>), Plus(S), Plus(W)>>),
    \* ^\w+\s+\w+,\s*Esq\.
       Cat(<<Bol, Plus(W), Plus(S), Plus(W), Ch(","), Star(S), Lit(<<"E","s","q",".">>)>>)
    >>

LetterEnd ==
    <<
    \* (?:Yours\s+(?:sincerely|truly|faithfully)|Sincerely|Best\s+regards|Kind\s+regards),?\s*$
       Cat(<<Alt(<<Cat(<<Lit(<<"Y","o","u","r","s">>), Plus(S), Alt(<<Lit(<<"s","i","n","c","e","r","e","l","y">>), Lit(<<"t","r","u","l","y">>), Lit(<<"f","a","i","t","h","f","u","l","l","y">>)>>)>>), Lit(<<"S","i","n","c","e","r","e","l","y">>), Cat(<<Lit(<<"B","e","s","t">>), Plus(S), Lit(<<"r","e","g","a","r","d","s">>)>>), Cat(<<Lit(<<"K","i","n","d">>), Plus(S), Lit(<<"r","e","g","a","r","d","s">>)>>)>>), Opt(Ch(",")), Star(S), Eol>>),
    \* ^[A-Z]\.\s*[A-Z]\.\s*\w+\s*$
       Cat(<<Bol, AZ, Ch("."), Star(S), AZ, Ch("."), Star(S), Plus(W), Star(S), Eol>>),
    \* ^[A-Z]{2,4}\/[A-Z]{2,4}\s*$
       Cat(<<Bol, Rep(AZ, 2, 4), Ch("/"), Rep(AZ, 2, 4), Star(S), Eol>>)
    >>

LetterCont ==
    <<
    \* \.\.\.$
       Cat(<<Lit(<<".",".",".">>), Eol>>),
    \* [a-z]\s*$
       Cat(<<az, Star(S), Eol>>),
    \* [,;]\s*$
       Cat(<<Cls({",",";"}), Star(S), Eol>>)
    >>

TelegramStart ==
    <<
    \* ^[A-Z]+,\s+[A-Z]+\.\s+\d{1,2}
       Cat(<<Bol, Plus(AZ), Ch(","), Plus(S), Plus(AZ), Ch("."), Plus(S), Rep(D, 1, 2)>>),
    \* ^[A-Z]+\s+[A-Z]+\s+\d{1,2}
       Cat(<<Bol, Plus(AZ), Plus(S), Plus(AZ), Plus(S), Rep(D, 1, 2)>>),
    \* ^GANNGOR|^NLT|^CHGO
       Cat(<<Bol, Alt(<<Lit(<<"G","A","N","N","G","O","R">>), Lit(<<"N","L","T">>), Lit(<<"C","H","G","O">>)>>)>>)
    >>

TelegramEnd ==
    <<
    \* ^[A-Z]+\s*$
       Cat(<<Bol, Plus(AZ), Star(S), Eol>>),
    \* Stop\.\s*$
       Cat(<<Lit(<<"S","t","o","p",".">>), Star(S), Eol>>),
    \* Love,?\s*$
       Cat(<<Lit(<<"L","o","v","e">>), Opt(Ch(",")), Star(S), Eol>>)
    >>

TelegramCont ==
    <<
    \* Stop\s*$
       Cat(<<Lit(<<"S","t","o","p">>), Star(S), Eol>>),
    \* [a-z]\s*$
       Cat(<<az, Star(S), Eol>>)
    >>

ReportStart ==
    <<
    \* ^(?:GENERAL|POLITICAL|ECONOMIC|TECHNICAL)\s+(?:SITUATION|REPORT|ANALYSIS)
       Cat(<<Bol, Alt(<<Lit(<<"G","E","N","E","R","A","L">>), Lit(<<"P","O","L","I","T","I","C","A","L">>), Lit(<<"E","C","O","N","O","M","I","C">>), Lit(<<"T","E","C","H","N","I","C","A","L">>)>>), Plus(S), Alt(<<Lit(<<"S","I","T","U","A","T","I","O","N">>), Lit(<<"R","E","P","O","R","T">>), Lit(<<"A","N","A","L","Y","S","I","S">>)>>)>>),
    \* ^(?:Page|Section)\s+\d+
       Cat(<<Bol, Alt(<<Lit(<<"P","a","g","e">>), Lit(<<"S","e","c","t","i","o","n">>)>>), Plus(S), Plus(D)>>),
    \* ^PROSPECTS\s+FOR\s+THE\s+FUTURE
       Cat(<<Bol, Lit(<<"P","R","O","S","P","E","C","T","S">>), Plus(S), Lit(<<"F","O","R">>), Plus(S), Lit(<<"T","H","E">>), Plus(S), Lit(<<"F","U","T","U","R","E">>)>>),
    \* ^\d+\.\s+[A-Z]
       Cat(<<Bol, Plus(D), Ch("."), Plus(S), AZ>>)
    >>

ReportEnd ==
    <<
    \* ^(?:End\s+of\s+)?(?:Report|Section|Chapter)
       Cat(<<Bol, Opt(Cat(<<Lit(<<"E","n","d">>), Plus(S), Lit(<<"o","f">>), Plus(S)>>)), Alt(<<Lit(<<"R","e","p","o","r","t">>), Lit(<<"S","e","c","t","i","o","n">>), Lit(<<"C","h","a","p","t","e","r">>)>>)>>),
    \* ^\*\*\*\s*$
       Cat(<<Bol, Lit(<<"*","*","*">>), Star(S), Eol>>)
    >>

ReportCont ==
    <<
    \* \.\.\.$
       Cat(<<Lit(<<".",".",".">>), Eol>>),
    \* [a-z]\s*$
       Cat(<<az, Star(S), Eol>>),
    \* :\s*$
       Cat(<<Ch(":"), Star(S), Eol>>)
    >>

ListStart ==
    <<
    \* ^LIST\s+OF\s+
       Cat(<<Bol, Lit(<<"L","I","S","T">>), Plus(S), Lit(<<"O","F">>), Plus(S)>>),
    \* ^\(\d+\)
       Cat(<<Bol, Ch("("), Plus(D), Ch(")")>>),
    \* ^\d+\.
       Cat(<<Bol, Plus(D), Ch(".")>>),
    \* ^[A-Z]-No\.\s+\d+
       Cat(<<Bol, AZ, Lit(<<"-","N","o",".">>), Plus(S), Plus(D)>>),
    \* ^PLACES\s+VISITED
       Cat(<<Bol, Lit(<<"P","L","A","C","E","S">>), Plus(S), Lit(<<"V","I","S","I","T","E","D">>)>>)
    >>

ListEnd ==
    <<
    \* ^END\s+OF\s+LIST
       Cat(<<Bol, Lit(<<"E","N","D">>), Plus(S), Lit(<<"O","F">>), Plus(S), Lit(<<"L","I","S","T">>)>>),
    \* ^\*Note:
       Cat(<<Bol, Lit(<<"*","N","o","t","e",":">>)>>)
    >>

ListCont ==
    <<
    \* ^\d+\s*$
       Cat(<<Bol, Plus(D), Star(S), Eol>>),
    \* ^[A-Z]\s*$
       Cat(<<Bol, AZ, Star(S), Eol>>),
    \* ^\(\d+\)\s*$
       Cat(<<Bol, Ch("("), Plus(D), Ch(")"), Star(S), Eol>>)
    >>

NarrativeStart ==
    <<
    \* ^I\s+(?:arrived|met|visited|went|saw)
       Cat(<<Bol, Ch("I"), Plus(S), Alt(<<Lit(<<"a","r","r","i","v","e","d">>), Lit(<<"m","e","t">>), Lit(<<"v","i","s","i","t","e","d">>), Lit(<<"w","e","n","t">>), Lit(<<"s","a","w">>)>>)>>),
    \* ^The\s+(?:journey|trip|visit)
       Cat(<<Bol, Lit(<<"T","h","e">>), Plus(S), Alt(<<Lit(<<"j","o","u","r","n","e","y">>), Lit(<<"t","r","i","p">>), Lit(<<"v","i","s","i","t">>)>>)>>),
    \* ^During\s+(?:my|the|this)
       Cat(<<Bol, Lit(<<"D","u","r","i","n","g">>), Plus(S), Alt(<<Lit(<<"m","y">>), Lit(<<"t","h","e">>), Lit(<<"t","h","i","s">>)>>)>>)
    >>

NarrativeEnd ==
    <<
    \* \.\s*$
       Cat(<<Ch("."), Star(S), Eol>>)
    >>

NarrativeCont ==
    <<
    \* [a-z]\s*$
       Cat(<<az, Star(S), Eol>>),
    \* [,;]\s*$
       Cat(<<Cls({",",";"}), Star(S), Eol>>),
    \* \band\s*$
       Cat(<<Wb, Lit(<<"a","n","d">>), Star(S), Eol>>)
    >>

document_patterns ==
    [letter |-> [start_patterns |-> LetterStart, end_patterns |-> LetterEnd, continuation_patterns |-> LetterCont],
     telegram |-> [start_patterns |-> TelegramStart, end_patterns |-> TelegramEnd, continuation_patterns |-> TelegramCont],
     report |-> [start_patterns |-> ReportStart, end_patterns |-> ReportEnd, continuation_patterns |-> ReportCont],
     list |-> [start_patterns |-> ListStart, end_patterns |-> ListEnd, continuation_patterns |-> ListCont],
     narrative |-> [start_patterns |-> NarrativeStart, end_patterns |-> NarrativeEnd, continuation_patterns |-> NarrativeCont]]

\* ------------------------------------------------------------ str helpers

IsSpace(c) == c \in SpaceSet

RECURSIVE LStrip(_)
RECURSIVE RStrip(_)

LStrip(s) == IF s # <<>> /\ IsSpace(Head(s)) THEN LStrip(Tail(s)) ELSE s

RStrip(s) ==
    IF s # <<>> /\ IsSpace(s[Len(s)]) THEN RStrip(SubSeq(s, 1, Len(s) - 1)) ELSE s

\* str.strip()
Strip(s) == RStrip(LStrip(s))

\* needle in s
Contains(s, needle) ==
    \E i \in 1..(Len(s) - Len(needle) + 1) : SubSeq(s, i, i + Len(needle) - 1) = needle

\* s.startswith(p), s.endswith(p)
StartsWith(s, p) == Len(s) >= Len(p) /\ SubSeq(s, 1, Len(p)) = p

EndsWith(s, p) == Len(s) >= Len(p) /\ SubSeq(s, Len(s) - Len(p) + 1, Len(s)) = p

\* len(s.split()): the number of maximal runs of non-blank characters
WordCount(s) ==
    Cardinality({i \in 1..Len(s) : ~IsSpace(s[i]) /\ (i = 1 \/ IsSpace(s[i - 1]))})

\* s.split(): the maximal runs of non-blank characters, as a set
SplitWords(s) ==
    {SubSeq(s, p[1], p[2]) :
        p \in {q \in (1..Len(s)) \X (1..Len(s)) :
                  /\ q[1] <= q[2]
                  /\ \A n \in q[1]..q[2] : ~IsSpace(s[n])
                  /\ (q[1] = 1 \/ IsSpace(s[q[1] - 1]))
                  /\ (q[2] = Len(s) \/ IsSpace(s[q[2] + 1]))}}

\* ------------------------------------------------------- float arithmetic

\* A Python float x with 0 <= x < 2 is the pair <<hi, lo>> of the integer
\* x * 2^60 = hi * 2^30 + lo.  Every double from 2^-8 up is such an integer,
\* and FAdd rounds the exact sum to 53 significant bits, ties to even, as
\* IEEE 754 addition does.
Two30 == 1024 * 1024 * 1024

F00 == <<0, 0>>

F01 == <<107374182, 429496736>>

F02 == <<214748364, 858993472>>

F03 == <<322122547, 214748352>>

F04 == <<429496729, 644245120>>

F05 == <<536870912, 0>>

F10 == <<1073741824, 0>>

RECURSIVE Quantum(_)

\* the spacing of the doubles around a sum whose high part is hi
Quantum(hi) == IF hi < 8388608 THEN 1 ELSE 2 * Quantum(hi \div 2)

FAdd(x, y) ==
    LET lo0 == x[2] + y[2]
        hi  == x[1] + y[1] + (lo0 \div Two30)
        lo  == lo0 % Two30
        q   == Quantum(hi)
        r   == lo % q
        dn  == lo - r
        up  == (2 * r > q) \/ (2 * r = q /\ (dn \div q) % 2 = 1)
        lo1 == IF up THEN dn + q ELSE dn
    IN  IF lo1 = Two30 THEN <<hi + 1, 0>> ELSE <<hi, lo1>>

FLt(x, y) == x[1] < y[1] \/ (x[1] = y[1] /\ x[2] < y[2])

FGe(x, y) == ~FLt(x, y)

FGt(x, y) == FLt(y, x)

FMin(x, y) == IF FLt(y, x) THEN y ELSE x

\* ------------------------------------------------ identify_document_type

AnyMatch(ps, s, f) == \E n \in 1..Len(ps) : Search(ps[n], s, f)

AnyWord(s, ws) == \E n \in 1..Len(ws) : Contains(s, ws[n])

FAddIf(c, x, y) == IF c THEN FAdd(x, y) ELSE x

\* \d{1,2}(?:st|nd|rd|th)?\s+(?:january|...|december), searched in content_lower
DayMonthLower ==
    Cat(<<Rep(D, 1, 2), Opt(Alt(<<Lit(<<"s","t">>), Lit(<<"n","d">>), Lit(<<"r","d">>), Lit(<<"t","h">>)>>)), Plus(S), Alt(<<Lit(<<"j","a","n","u","a","r","y">>), Lit(<<"f","e","b","r","u","a","r","y">>), Lit(<<"m","a","r","c","h">>), Lit(<<"a","p","r","i","l">>), Lit(<<"m","a","y">>), Lit(<<"j","u","n","e">>), Lit(<<"j","u","l","y">>), Lit(<<"a","u","g","u","s","t">>), Lit(<<"s","e","p","t","e","m","b","e","r">>), Lit(<<"o","c","t","o","b","e","r">>), Lit(<<"n","o","v","e","m","b","e","r">>), Lit(<<"d","e","c","e","m","b","e","r">>)>>)>>)

LetterWords ==
    << <<"d","e","a","r">>, <<"s","i","n","c","e","r","e","l","y">>,
       <<"y","o","u","r","s"," ","t","r","u","l","y">>, <<"r","e","g","a","r","d","s">> >>

TelegramWords ==
    << <<"s","t","o","p">>, <<"c","a","b","l","e">>, <<"w","i","r","e">>,
       <<"g","a","n","n","g","o","r">>, <<"c","h","g","o">> >>

ReportWords ==
    << <<"a","n","a","l","y","s","i","s">>, <<"s","i","t","u","a","t","i","o","n">>,
       <<"p","r","o","s","p","e","c","t","s">>, <<"c","o","n","c","l","u","s","i","o","n">> >>

ListWords ==
    << <<"s","p","e","c","i","f","i","c","a","t","i","o","n">>,
       <<"e","q","u","i","p","m","e","n","t">>, <<"i","t","e","m">>,
       <<"d","e","s","c","r","i","p","t","i","o","n">> >>

\* ^\d+\.|\(\d+\)
NumberedItem ==
    Alt(<<Cat(<<Bol, Plus(D), Ch(".")>>), Cat(<<Ch("("), Plus(D), Ch(")")>>)>>)

RECURSIVE CountFrom(_, _, _, _)

\* len(re.findall(r, s, flags)): leftmost matches, not overlapping
CountFrom(r, s, f, pos) ==
    LET i == NextMatch(r, s, f, pos)
    IN  IF i = 0 THEN 0 ELSE 1 + CountFrom(r, s, f, MaxOf(Ends(r, s, i, f)))

FindAllCount(r, s, f) == CountFrom(r, s, f, 1)

\* the type-specific heuristics of lines 155-178, added to score
Heuristics(doc_type, content, content_lower, score) ==
    CASE doc_type = "letter" ->
            FAddIf(Search(DayMonthLower, content_lower, NoFlags),
                   FAddIf(AnyWord(content_lower, LetterWords), score, F01), F01)
      [] doc_type = "telegram" ->
            FAddIf(WordCount(content) < 100,
                   FAddIf(AnyWord(content_lower, TelegramWords), score, F02), F01)
      [] doc_type = "report" ->
            FAddIf(WordCount(content) > 200,
                   FAddIf(AnyWord(content_lower, ReportWords), score, F01), F01)
      [] doc_type = "list" ->
            FAddIf(AnyWord(content_lower, ListWords),
                   FAddIf(FindAllCount(NumberedItem, content, ML) > 3, score, F02), F01)
      [] OTHER -> score

\* lines 137-153: the score of the start, end and continuation patterns
PatternScore(patterns, content) ==
    FAddIf(AnyMatch(patterns.continuation_patterns, content, ICML),
           FAddIf(AnyMatch(patterns.end_patterns, content, ICML),
                  FAddIf(AnyMatch(patterns.start_patterns, content, ICML), F00, F04),
                  F03),
           F02)

\* scores[doc_type] of lines 133-180
TypeScore(doc_type, content) ==
    FMin(Heuristics(doc_type, content, StrLower(content),
             PatternScore(document_patterns[doc_type], content)), F10)

RECURSIVE ScoresFrom(_, _, _)

\* lines 133-180: the loop over document_patterns, scores being the scores so
\* far, in the order of the dict
ScoresFrom(content, n, scores) ==
    IF n > Len(DocTypes) THEN scores
    ELSE ScoresFrom(content, n + 1, Append(scores, TypeScore(DocTypes[n], content)))

\* the last type, in dict order, with the top score: what FirstOfTheBest
\* tells from the code
BestTypeLast(scores) ==
    CHOOSE n \in 1..Len(DocTypes) :
        /\ \A m \in 1..Len(DocTypes) : ~FLt(scores[n], scores[m])
        /\ \A m \in (n + 1)..Len(DocTypes) : FLt(scores[m], scores[n])

\* max(scores, key=scores.get): the first type, in dict order, with the top score
BestType(scores) ==
    CHOOSE n \in 1..Len(DocTypes) :
        /\ \A m \in 1..Len(DocTypes) : ~FLt(scores[n], scores[m])
        /\ \A m \in 1..(n - 1) : FLt(scores[m], scores[n])

\* lines 186-192: best_type is the place of the type in DocTypes
Classified(scores, best_type) ==
    IF FLt(scores[best_type], F03) THEN <<"unknown", scores[best_type]>>
    ELSE <<DocTypes[best_type], scores[best_type]>>

BestOf(scores) == Classified(scores, BestType(scores))

\* DocumentCombiner.identify_document_type: <<type, confidence>>
identify_document_type(content) ==
    IF content = <<>> THEN <<"unknown", F00>>
    ELSE BestOf(ScoresFrom(content, 1, <<>>))

\* ------------------------------------------------------- is_continuation

\* A field of a Python dict entry is [k, v]: k is "absent" (no such key),
\* "none" (None) or the type of the value v.
Absent == [k |-> "absent", v |-> <<>>]

None == [k |-> "none", v |-> <<>>]

Val(kind, v) == [k |-> kind, v |-> v]

\* entry.get('content', ''): the text, or <<>> for an absent key
ContentOf(e) == e.content.v

\* entry.get('content', '').strip() raises AttributeError on None
ContentRaises(e) == e.content.k = "none"

\* the truth value of a Python value: None, '', 0 and False are false
Truthy(x) ==
    \/ (x.k = "str" /\ x.v # <<>>)
    \/ (x.k = "bool" /\ x.v)
    \/ (x.k = "int" /\ x.v # 0)

\* entry.get('page_number', 0) and entry.get('date_entry') as truth values
PageTruthy(e) == Truthy(e.page_number)

DateTruthy(e) == Truthy(e.date_entry)

\* (entry.get('location') or '').lower()
LocLower(e) == IF e.location.k = "str" THEN StrLower(e.location.v) ELSE <<>>

Abs(n) == IF n < 0 THEN -n ELSE n

\* [a-z,;]\s*$
EndsIncomplete == Cat(<<Cls(LowerSet \cup {",",";"}), Star(S), Eol>>)

\* ^[a-z]
StartsLower == Cat(<<Bol, az>>)

\* Page\s+\d+|^\d+\.\s*$|\(-?\d+-?\)|^-\d+-
PageMarker ==
    Alt(<<Cat(<<Lit(<<"P","a","g","e">>), Plus(S), Plus(D)>>), Cat(<<Bol, Plus(D), Ch("."), Star(S), Eol>>), Cat(<<Ch("("), Opt(Ch("-")), Plus(D), Opt(Ch("-")), Ch(")")>>), Cat(<<Bol, Ch("-"), Plus(D), Ch("-")>>)>>)

\* \b[A-Z][a-z]+\b
ProperNoun == Cat(<<Wb, AZ, Plus(az), Wb>>)

\* set(re.findall(r, s)) for a pattern whose matches are whole words
FindAllSet(r, s, f) ==
    UNION {{SubSeq(s, i, e - 1) : e \in Ends(r, s, i, f)} : i \in 1..Len(s)}

\* (a / b) * 0.2 as Python computes it, for 0 <= a <= b <= 8: row b, column a + 1
OverlapTimes02 ==
    <<
       <<<<0, 0>>, <<214748364, 858993472>>>>,
       <<<<0, 0>>, <<107374182, 429496736>>, <<214748364, 858993472>>>>,
       <<<<0, 0>>, <<71582788, 286331152>>, <<143165576, 572662304>>, <<214748364, 858993472>>>>,
       <<<<0, 0>>, <<53687091, 214748368>>, <<107374182, 429496736>>, <<161061273, 644245120>>, <<214748364, 858993472>>>>,
       <<<<0, 0>>, <<42949672, 1030792160>>, <<85899345, 987842496>>, <<128849018, 944892800>>, <<171798691, 901943168>>, <<214748364, 858993472>>>>,
       <<<<0, 0>>, <<35791394, 143165576>>, <<71582788, 286331152>>, <<107374182, 429496736>>, <<143165576, 572662304>>, <<178956970, 715827904>>, <<214748364, 858993472>>>>,
       <<<<0, 0>>, <<30678337, 889671796>>, <<61356675, 705601768>>, <<92035013, 521531744>>, <<122713351, 337461712>>, <<153391689, 153391712>>, <<184070026, 1043063488>>, <<214748364, 858993472>>>>,
       <<<<0, 0>>, <<26843545, 644245096>>, <<53687091, 214748368>>, <<80530636, 858993472>>, <<107374182, 429496736>>, <<134217728, 0>>, <<161061273, 644245120>>, <<187904819, 214748384>>, <<214748364, 858993472>>>>
    >>

\* the location signal of lines 219-225
LocationBonus(loc1, loc2) ==
    IF loc1 # <<>> /\ loc2 # <<>>
    THEN IF loc1 = loc2 THEN F02
         ELSE IF \/ \E w \in SplitWords(loc1) : Contains(loc2, w)
                 \/ \E w \in SplitWords(loc2) : Contains(loc1, w)
              THEN F01 ELSE F00
    ELSE F00

\* lines 207-211: the pages are near (both numbers truthy, at most 5 apart)
PageSignal(entry1, entry2, confidence) ==
    FAddIf(/\ PageTruthy(entry1) /\ PageTruthy(entry2)
           /\ Abs(entry2.page_number.v - entry1.page_number.v) <= 5,
           confidence, F02)

\* lines 213-217: the dates are equal, or only the first entry has one
DateSignal(entry1, entry2, confidence) ==
    IF DateTruthy(entry1) /\ DateTruthy(entry2)
       /\ entry1.date_entry.v = entry2.date_entry.v
    THEN FAdd(confidence, F03)
    ELSE IF DateTruthy(entry1) /\ ~DateTruthy(entry2)
         THEN FAdd(confidence, F01) ELSE confidence

\* lines 219-225
LocationSignal(bonus, confidence) == FAddIf(bonus # F00, confidence, bonus)

\* lines 228-232 without lines 234-236, the start of content2 not looked at:
\* what FlowIsContinuation tells from the code
FlowSignalEndOnly(content1, content2, confidence) ==
    FAddIf(Search(EndsIncomplete, content1, NoFlags)
           \/ EndsWith(content1, <<".", ".", ".">>), confidence, F03)

\* lines 228-236: content1 ends in the middle of a sentence, content2 starts
\* in lower case or with a connective
FlowSignal(content1, content2, confidence) ==
    FAddIf(\/ Search(StartsLower, content2, NoFlags)
           \/ StartsWith(content2, <<"a", "n", "d", " ">>)
           \/ StartsWith(content2, <<"b", "u", "t", " ">>),
           FAddIf(Search(EndsIncomplete, content1, NoFlags)
                  \/ EndsWith(content1, <<".", ".", ".">>), confidence, F03),
           F03)

\* lines 238-240: content1 holds a page marker
MarkerSignal(content1, confidence) ==
    FAddIf(Search(PageMarker, content1, IC), confidence, F02)

\* lines 242-246: both contents are of one type, which is not 'unknown'
TypeSignal(type1, type2, confidence) ==
    FAddIf(type1 = type2 /\ type1 # "unknown", confidence, F02)

\* lines 248-253: the proper nouns the contents share
WordSignal(words1, words2, confidence) ==
    IF words1 # {} /\ words2 # {}
    THEN FAdd(confidence, OverlapTimes02[Cardinality(words1 \cup words2)]
                                        [Cardinality(words1 \cap words2) + 1])
    ELSE confidence

\* the confidence of lines 204-253, for the stripped contents
Confidence(entry1, entry2, content1, content2) ==
    WordSignal(FindAllSet(ProperNoun, content1, NoFlags),
               FindAllSet(ProperNoun, content2, NoFlags),
        TypeSignal(identify_document_type(content1)[1],
                   identify_document_type(content2)[1],
            MarkerSignal(content1,
                FlowSignal(content1, content2,
                    LocationSignal(LocationBonus(LocLower(entry1), LocLower(entry2)),
                        DateSignal(entry1, entry2,
                            PageSignal(entry1, entry2, F00)))))))

\* line 255
Verdict(confidence) == <<FGe(confidence, F05), confidence>>

Continuation(entry1, entry2, content1, content2) ==
    IF content1 = <<>> \/ content2 = <<>> THEN <<FALSE, F00>>
    ELSE Verdict(Confidence(entry1, entry2, content1, content2))

\* DocumentCombiner.is_continuation: <<is_cont, confidence>>
is_continuation(entry1, entry2) ==
    Continuation(entry1, entry2, Strip(ContentOf(entry1)), Strip(ContentOf(entry2)))

\* ------------------------------------------------------- combine_entries

\* ^(?:Page\s+)?\d+\.?\s*
LeadPageNumber == Cat(<<Bol, Opt(Cat(<<Lit(<<"P","a","g","e">>), Plus(S)>>)), Plus(D), Opt(Ch(".")), Star(S)>>)

\* ^-?\d+-?\s*
LeadDashNumber == Cat(<<Bol, Opt(Ch("-")), Plus(D), Opt(Ch("-")), Star(S)>>)

\* ^\(\d+\)\s*
LeadParenNumber == Cat(<<Bol, Ch("("), Plus(D), Ch(")"), Star(S)>>)

\* ^(?:and|but|however|therefore|thus|so|in|of|the|that|which)\s+
Connective ==
    Cat(<<Bol, Alt(<<Lit(<<"a","n","d">>), Lit(<<"b","u","t">>), Lit(<<"h","o","w","e","v","e","r">>), Lit(<<"t","h","e","r","e","f","o","r","e">>), Lit(<<"t","h","u","s">>), Lit(<<"s","o">>), Lit(<<"i","n">>), Lit(<<"o","f">>), Lit(<<"t","h","e">>), Lit(<<"t","h","a","t">>), Lit(<<"w","h","i","c","h">>)>>), Plus(S)>>)

\* ^[a-z]  and  [a-z,;]\s*$  are StartsLower and EndsIncomplete

\* \n\s*\n\s*\n+
BlankLines == Cat(<<Ch("\n"), Star(S), Ch("\n"), Star(S), Plus(Ch("\n"))>>)

\* \s+
Blanks == Plus(S)

\* lines 274-277: page numbers and markers at the start are removed
StripMarkers(content) ==
    Sub(LeadParenNumber, Const(<<>>),
        Sub(LeadDashNumber, Const(<<>>),
            Sub(LeadPageNumber, Const(<<>>), content, IC), NoFlags), NoFlags)

Joined(acc, content) ==
    [acc EXCEPT ![Len(acc)] = RStrip(acc[Len(acc)]) \o <<" ">> \o content]

\* lines 279-300: content is joined to the last part, or opens a new one
Place(acc, content) ==
    IF acc # <<>> /\ Search(EndsIncomplete, acc[Len(acc)], NoFlags)
                  /\ Search(StartsLower, content, NoFlags)
    THEN Joined(acc, content)
    ELSE IF acc # <<>> /\ Search(Connective, content, IC)
         THEN Joined(acc, content)
         ELSE Append(acc, content)

\* lines 268-272: an entry whose stripped content is empty is passed over
PlaceStripped(acc, stripped) ==
    IF stripped = <<>> THEN acc ELSE Place(acc, StripMarkers(stripped))

\* one pass of the loop of lines 267-300 over entry, combined_content being acc
CombineStep(acc, entry) == PlaceStripped(acc, Strip(ContentOf(entry)))

RECURSIVE CombineLoop(_, _, _)

CombineLoop(entries, n, acc) ==
    IF n > Len(entries) THEN acc
    ELSE CombineLoop(entries, n + 1, CombineStep(acc, entries[n]))

RECURSIVE JoinWith(_, _)

\* sep.join(parts)
JoinWith(parts, sep) ==
    IF parts = <<>> THEN <<>>
    ELSE IF Len(parts) = 1 THEN parts[1]
         ELSE parts[1] \o sep \o JoinWith(Tail(parts), sep)

\* lines 302-310: join, then clean up
CombineFinish(combined_content) ==
    Strip(Sub(Blanks, Const(<<" ">>),
              Sub(BlankLines, Const(<<"\n", "\n">>),
                  JoinWith(combined_content, <<"\n", "\n">>), NoFlags), NoFlags))

\* a list of one entry sent through the loop and the clean-up of lines
\* 265-310: what SingleUnchanged tells from the code
CombineSingleCleaned(entries) == Val("str", CombineFinish(CombineLoop(entries, 1, <<>>)))

\* the path of lines 262-263 for a list of one entry: entries[0].get('content', '')
CombineSingle(entries) ==
    IF entries[1].content.k = "absent" THEN Val("str", <<>>) ELSE entries[1].content

\* DocumentCombiner.combine_entries: a Python value (None only for a single
\* entry whose content is None)
combine_entries(entries) ==
    IF entries = <<>> THEN Val("str", <<>>)
    ELSE IF Len(entries) = 1 THEN CombineSingle(entries)
         ELSE Val("str", CombineFinish(CombineLoop(entries, 1, <<>>)))

\* --------------------------------------------------- is_document_complete

\* Dear\s+\w+
HasGreeting == Cat(<<Lit(<<"D","e","a","r">>), Plus(S), Plus(W)>>)

\* (?:Yours\s+(?:sincerely|truly)|Sincerely|Best\s+regards)
HasClosing ==
    Alt(<<Cat(<<Lit(<<"Y","o","u","r","s">>), Plus(S), Alt(<<Lit(<<"s","i","n","c","e","r","e","l","y">>), Lit(<<"t","r","u","l","y">>)>>)>>), Lit(<<"S","i","n","c","e","r","e","l","y">>), Cat(<<Lit(<<"B","e","s","t">>), Plus(S), Lit(<<"r","e","g","a","r","d","s">>)>>)>>)

\* (?:Stop\.?|[A-Z]{3,})\s*$
TelegramClose == Cat(<<Alt(<<Cat(<<Lit(<<"S","t","o","p">>), Opt(Ch("."))>>), Rep(AZ, 3, -1)>>), Star(S), Eol>>)

\* ^\d+\.|^\(\d+\)
StructuredItem == Cat(<<Bol, Alt(<<Cat(<<Plus(D), Ch(".")>>), Cat(<<Ch("("), Plus(D), Ch(")")>>)>>)>>)

\* [.!?]\s*$
SentenceEnd == Cat(<<Cls({".","!","?"}), Star(S), Eol>>)

\* DocumentCombiner.is_document_complete
is_document_complete(doc_type, content) ==
    IF content = <<>> THEN FALSE
    ELSE CASE doc_type = "letter" ->
                 Search(HasGreeting, content, IC) /\ Search(HasClosing, content, IC)
           [] doc_type = "telegram" -> Search(TelegramClose, content, IC)
           [] doc_type = "list" -> Search(StructuredItem, content, ML)
           [] OTHER -> Search(SentenceEnd, content, NoFlags)

\* --------------------------------------------------- create_document_title

\* the leftmost position where r matches, 0 if none
FirstStart(r, s, f) ==
    IF Search(r, s, f)
    THEN CHOOSE i \in 1..(Len(s) + 1) :
            /\ Ends(r, s, i, f) # {}
            /\ \A j \in 1..(i - 1) : Ends(r, s, j, f) = {}
    ELSE 0

\* group(1) of the leftmost match of pre followed by grp: pre is matched
\* greedily and grp takes the longest text (for the patterns below the start
\* of the group is forced and the greedy end is the longest one)
Group1(pre, grp, s, f) ==
    LET i == FirstStart(Cat(<<pre, grp>>), s, f)
        g == MaxOf({p \in Ends(pre, s, i, f) : Ends(grp, s, p, f) # {}})
    IN  SubSeq(s, g, MaxOf(Ends(grp, s, g, f)) - 1)

\* str.title(): a letter after a non-letter is upper case, any other lower case
StrTitle(s) ==
    [i \in 1..Len(s) |->
        IF i = 1 \/ s[i - 1] \notin (LowerSet \cup UpperSet)
        THEN ToUpper(s[i]) ELSE ToLower(s[i])]

\* Dear\s+((?:Mr|Mrs|Miss|Dr|Professor)\s+\w+)
RecipientPre == Cat(<<Lit(<<"D","e","a","r">>), Plus(S)>>)

RecipientGrp == Cat(<<Alt(<<Lit(<<"M","r">>), Lit(<<"M","r","s">>), Lit(<<"M","i","s","s">>), Lit(<<"D","r">>), Lit(<<"P","r","o","f","e","s","s","o","r">>)>>), Plus(S), Plus(W)>>)

\* Yours\s+(?:sincerely|truly),?\s*([A-Z]\.\s*[A-Z]\.\s*\w+)
SenderPre == Cat(<<Lit(<<"Y","o","u","r","s">>), Plus(S), Alt(<<Lit(<<"s","i","n","c","e","r","e","l","y">>), Lit(<<"t","r","u","l","y">>)>>), Opt(Ch(",")), Star(S)>>)

SenderGrp == Cat(<<AZ, Ch("."), Star(S), AZ, Ch("."), Star(S), Plus(W)>>)

\* ^([A-Z]+),?\s+([A-Z]+\.?\s+\d+)
DestGrp == Plus(AZ)

DestRest == Cat(<<Opt(Ch(",")), Plus(S), Plus(AZ), Opt(Ch(".")), Plus(S), Plus(D)>>)

\* ^((?:GENERAL|POLITICAL|ECONOMIC|TECHNICAL)\s+(?:SITUATION|REPORT|ANALYSIS))
SubjectGrp ==
    Cat(<<Alt(<<Lit(<<"G","E","N","E","R","A","L">>), Lit(<<"P","O","L","I","T","I","C","A","L">>), Lit(<<"E","C","O","N","O","M","I","C">>), Lit(<<"T","E","C","H","N","I","C","A","L">>)>>), Plus(S), Alt(<<Lit(<<"S","I","T","U","A","T","I","O","N">>), Lit(<<"R","E","P","O","R","T">>), Lit(<<"A","N","A","L","Y","S","I","S">>)>>)>>)

\* ^LIST\s+OF\s+(.+)
ListPre == Cat(<<Bol, Lit(<<"L","I","S","T">>), Plus(S), Lit(<<"O","F">>), Plus(S)>>)

ListGrp == Plus(Dot)

\* ^PLACES\s+VISITED
PlacesVisited == Cat(<<Bol, Lit(<<"P","L","A","C","E","S">>), Plus(S), Lit(<<"V","I","S","I","T","E","D">>)>>)

\* group(1) of ^([A-Z]+),?\s+(...): the group opens the match
DestGroup(s) ==
    LET i == FirstStart(Cat(<<Bol, DestGrp, DestRest>>), s, ML)
    IN  SubSeq(s, i, MaxOf({p \in Ends(DestGrp, s, i, ML) : Ends(DestRest, s, p, ML) # {}}) - 1)

\* the title by the place or the date for every type: what TypeFallbacks
\* tells from the code
TitleByPlaceOrDate(doc_type, content, location, date) ==
    IF location.k = "str" /\ location.v # <<>>
    THEN <<"N","o","t","e","s"," ","f","r","o","m"," ">> \o location.v
    ELSE IF date.k = "str" /\ date.v # <<>>
         THEN <<"E","n","t","r","y"," ","f","r","o","m"," ">> \o date.v
         ELSE <<"L","o","g","b","o","o","k"," ","E","n","t","r","y">>

\* DocumentCombiner.create_document_title; location and date are Python values
create_document_title(doc_type, content, location, date) ==
    CASE doc_type = "letter" ->
            IF Search(Cat(<<RecipientPre, RecipientGrp>>), content, IC)
            THEN <<"L","e","t","t","e","r"," ","t","o"," ">> \o Group1(RecipientPre, RecipientGrp, content, IC)
            ELSE IF Search(Cat(<<SenderPre, SenderGrp>>), content, IC)
                 THEN <<"L","e","t","t","e","r"," ","f","r","o","m"," ">> \o Group1(SenderPre, SenderGrp, content, IC)
                 ELSE <<"P","e","r","s","o","n","a","l"," ","L","e","t","t","e","r">>
      [] doc_type = "telegram" ->
            IF Search(Cat(<<Bol, DestGrp, DestRest>>), content, ML)
            THEN <<"T","e","l","e","g","r","a","m"," ","f","r","o","m"," ">> \o DestGroup(content)
            ELSE <<"T","e","l","e","g","r","a","m">>
      [] doc_type = "report" ->
            IF Search(Cat(<<Bol, SubjectGrp>>), content, ICML)
            THEN StrTitle(Group1(Bol, SubjectGrp, content, ICML))
            ELSE <<"B","u","s","i","n","e","s","s"," ","R","e","p","o","r","t">>
      [] doc_type = "list" ->
            IF Search(Cat(<<ListPre, ListGrp>>), content, ICML)
            THEN <<"L","i","s","t"," ","o","f"," ">> \o StrTitle(Group1(ListPre, ListGrp, content, ICML))
            ELSE IF Search(PlacesVisited, content, ICML)
                 THEN <<"P","l","a","c","e","s"," ","V","i","s","i","t","e","d">>
                 ELSE <<"E","q","u","i","p","m","e","n","t"," ","L","i","s","t">>
      [] OTHER ->
            IF location.k = "str" /\ location.v # <<>>
            THEN <<"N","o","t","e","s"," ","f","r","o","m"," ">> \o location.v
            ELSE IF date.k = "str" /\ date.v # <<>>
                 THEN <<"E","n","t","r","y"," ","f","r","o","m"," ">> \o date.v
                 ELSE <<"L","o","g","b","o","o","k"," ","E","n","t","r","y">>

\* ------------------------------------------------ create_document_groups

\* the key of line 318: x.get('page_number', 0)
PageKey(e) == IF e.page_number.k = "int" THEN e.page_number.v ELSE 0

\* sorted() compares the keys with <, which raises TypeError when a key is
\* None; a list of one entry is returned without a comparison
SortRaises(entries) ==
    Len(entries) >= 2 /\ \E n \in 1..Len(entries) : entries[n].page_number.k = "none"

\* the place of entries[n] in sorted(entries, key=PageKey): the sort is stable
SortedPlace(entries, n) ==
    Cardinality({m \in 1..Len(entries) :
                    \/ PageKey(entries[m]) < PageKey(entries[n])
                    \/ (PageKey(entries[m]) = PageKey(entries[n]) /\ m <= n)})

SortByPage(entries) ==
    [p \in 1..Len(entries) |->
        entries[CHOOSE n \in 1..Len(entries) : SortedPlace(entries, n) = p]]

\* str(n) for an int
DigitChars == <<"0","1","2","3","4","5","6","7","8","9">>

RECURSIVE NatStr(_)

NatStr(n) ==
    IF n < 10 THEN <<DigitChars[n + 1]>>
    ELSE NatStr(n \div 10) \o <<DigitChars[(n % 10) + 1]>>

IntStr(n) == IF n < 0 THEN <<"-">> \o NatStr(-n) ELSE NatStr(n)

DocTypeText ==
    [letter |-> <<"l","e","t","t","e","r">>, telegram |-> <<"t","e","l","e","g","r","a","m">>,
     report |-> <<"r","e","p","o","r","t">>, list |-> <<"l","i","s","t">>,
     narrative |-> <<"n","a","r","r","a","t","i","v","e">>, unknown |-> <<"u","n","k","n","o","w","n">>]

\* f"doc_{entry.get('page_number', i)}_{doc_type}" (line 379); i counts from 0
GroupId(entry, i, doc_type) ==
    <<"d","o","c","_">> \o (CASE entry.page_number.k = "int" -> IntStr(entry.page_number.v)
                      [] entry.page_number.k = "none" -> <<"N","o","n","e">>
                      [] OTHER -> IntStr(i))
           \o <<"_">> \o DocTypeText[doc_type]

\* the member that supplies best_date (lines 367-370), 0 if none does
BestDateMember(group_entries) ==
    IF \E n \in 1..Len(group_entries) : Truthy(group_entries[n].date_entry)
    THEN CHOOSE n \in 1..Len(group_entries) :
            /\ Truthy(group_entries[n].date_entry)
            /\ \A m \in 1..(n - 1) : ~Truthy(group_entries[m].date_entry)
    ELSE 0

BestLocationMember(group_entries) ==
    IF \E n \in 1..Len(group_entries) : Truthy(group_entries[n].location)
    THEN CHOOSE n \in 1..Len(group_entries) :
            /\ Truthy(group_entries[n].location)
            /\ \A m \in 1..(n - 1) : ~Truthy(group_entries[m].location)
    ELSE 0

\* e.get('date_inferred', False)
DateInferredOf(e) ==
    IF e.date_inferred.k = "absent" THEN Val("bool", FALSE) ELSE e.date_inferred

\* lines 355-389: the DocumentGroup of the members group_entries, opened by
\* entry at place i of sorted_entries
AllContent(group_entries) ==
    JoinWith([n \in 1..Len(group_entries) |-> ContentOf(group_entries[n])], <<" ">>)

\* lines 362-372: d is the member that supplies the date, l the location
BestDate(group_entries, d) == IF d = 0 THEN None ELSE group_entries[d].date_entry

BestLocation(group_entries, l) == IF l = 0 THEN None ELSE group_entries[l].location

GroupDateInferred(group_entries, d) ==
    IF d = 0 THEN Val("bool", TRUE) ELSE DateInferredOf(group_entries[d])

\* lines 374-389: the DocumentGroup, typed being (doc_type, type_confidence)
DocumentGroup(entry, i, group_entries, typed, combined_content, d, l) ==
    [id |-> GroupId(entry, i, typed[1]),
     document_type |-> typed[1],
     title |-> create_document_title(typed[1], combined_content,
                   BestLocation(group_entries, l), BestDate(group_entries, d)),
     date_entry |-> BestDate(group_entries, d),
     location |-> BestLocation(group_entries, l),
     entries |-> group_entries,
     combined_content |-> combined_content,
     is_complete |-> is_document_complete(typed[1], combined_content),
     confidence |-> typed[2],
     date_inferred |-> GroupDateInferred(group_entries, d)]

MakeGroup(entry, i, group_entries) ==
    DocumentGroup(entry, i, group_entries,
                  identify_document_type(AllContent(group_entries)),
                  combine_entries(group_entries).v,
                  BestDateMember(group_entries), BestLocationMember(group_entries))

\* line 328: not content or len(content) < 20, content being stripped
MinContent == 20

\* the check of line 328 on the content as it was read, the blanks around it
\* counted: what ShortNeverOpens tells from the code
TooShortUnstripped(e) == ContentOf(e) = <<>> \/ Len(ContentOf(e)) < MinContent

\* the check of line 328 with a threshold of 30 characters: what
\* GroupingCovers tells from the code
TooShortOfThirty(e) == Strip(ContentOf(e)) = <<>> \/ Len(Strip(ContentOf(e))) < 30

TooShort(e) == Strip(ContentOf(e)) = <<>> \/ Len(Strip(ContentOf(e))) < MinContent

\* line 336: range(i + 1, min(i + 10, len(sorted_entries)))
Lookahead == 10

Min(a, b) == IF a < b THEN a ELSE b

\* a window of 5 places: what RunKeptInWindow tells from the code
InnerStopAtFive(i, n) == Min(i + 5, n)

InnerStop(i, n) == Min(i + Lookahead, n)

\* line 345: is_cont and confidence > 0.5
Accepted(r) == r[1] /\ FGt(r[2], F05)

Absorbs(last, next_entry) == Accepted(is_continuation(last, next_entry))

\* the search going on until the group has more than two entries: what
\* ClosedAtFirstFailure tells from the code
StopsLookingAtThree(members) == Len(members) > 2

\* the search ending at any candidate that does not continue the group: what
\* SingleStaysOpen tells from the code
StopsLookingAlways(members) == Len(members) >= 1

\* lines 348-350: a candidate that does not continue the group ends the search
\* when the group has more than one entry
StopsLooking(members) == Len(members) > 1

\* the group closed without its indices being recorded: what NoRecordTwice
\* tells from the code
MarkUsedNever(used, indices) == used

\* line 353: used_indices.update(group_indices)
MarkUsed(used, indices) == used \cup indices

\* ------------------------------------------------------------ clean_text

\* line 95: [^\w\s\.\,\!\?\;\:\-\(\)\[\]\{\}\"\'\$\%\&\@\#\*\+\=\<\>\/\\\|\_\~\`\^]
\* (the texts of the model hold no backtick: a TLA+ string cannot hold one)
OcrArtifact ==
    NCls(WordSet \cup SpaceSet \cup {".",",","!","?",";",":","-","(",")","[","]","{","}","\"","'","$","%","&","@","#","*","+","=","<",">","/","\\","|","_","~","^"})

\* lines 98-138: ocr_fixes in the order of the dict
ocr_fixes ==
    <<
    \* \bI\b(?=\s+[a-z]) -> 'I'
       [pattern |-> Cat(<<Wb, Ch("I"), Wb, Ahead(Cat(<<Plus(S), az>>))>>),
        replacement |-> <<"I">>],
    \* \bto-morrow\b -> 'tomorrow'
       [pattern |-> Cat(<<Wb, Lit(<<"t","o","-","m","o","r","r","o","w">>), Wb>>),
        replacement |-> <<"t","o","m","o","r","r","o","w">>],
    \* \bto-day\b -> 'today'
       [pattern |-> Cat(<<Wb, Lit(<<"t","o","-","d","a","y">>), Wb>>),
        replacement |-> <<"t","o","d","a","y">>],
    \* \bto-night\b -> 'tonight'
       [pattern |-> Cat(<<Wb, Lit(<<"t","o","-","n","i","g","h","t">>), Wb>>),
        replacement |-> <<"t","o","n","i","g","h","t">>],
    \* \bper cent\b -> 'percent'
       [pattern |-> Cat(<<Wb, Lit(<<"p","e","r"," ","c","e","n","t">>), Wb>>),
        replacement |-> <<"p","e","r","c","e","n","t">>],
    \* \bper-cent\b -> 'percent'
       [pattern |-> Cat(<<Wb, Lit(<<"p","e","r","-","c","e","n","t">>), Wb>>),
        replacement |-> <<"p","e","r","c","e","n","t">>],
    \* \bfavour\b -> 'favor'
       [pattern |-> Cat(<<Wb, Lit(<<"f","a","v","o","u","r">>), Wb>>),
        replacement |-> <<"f","a","v","o","r">>],
    \* \bfavourable\b -> 'favorable'
       [pattern |-> Cat(<<Wb, Lit(<<"f","a","v","o","u","r","a","b","l","e">>), Wb>>),
        replacement |-> <<"f","a","v","o","r","a","b","l","e">>],
    \* \bcolour\b -> 'color'
       [pattern |-> Cat(<<Wb, Lit(<<"c","o","l","o","u","r">>), Wb>>),
        replacement |-> <<"c","o","l","o","r">>],
    \* \bhonour\b -> 'honor'
       [pattern |-> Cat(<<Wb, Lit(<<"h","o","n","o","u","r">>), Wb>>),
        replacement |-> <<"h","o","n","o","r">>],
    \* \bcentre\b -> 'center'
       [pattern |-> Cat(<<Wb, Lit(<<"c","e","n","t","r","e">>), Wb>>),
        replacement |-> <<"c","e","n","t","e","r">>],
    \* \btheatre\b -> 'theater'
       [pattern |-> Cat(<<Wb, Lit(<<"t","h","e","a","t","r","e">>), Wb>>),
        replacement |-> <<"t","h","e","a","t","e","r">>],
    \* \bconneotor\b -> 'connector'
       [pattern |-> Cat(<<Wb, Lit(<<"c","o","n","n","e","o","t","o","r">>), Wb>>),
        replacement |-> <<"c","o","n","n","e","c","t","o","r">>],
    \* \bsele otor\b -> 'selector'
       [pattern |-> Cat(<<Wb, Lit(<<"s","e","l","e"," ","o","t","o","r">>), Wb>>),
        replacement |-> <<"s","e","l","e","c","t","o","r">>],
    \* \boffereing\b -> 'offering'
       [pattern |-> Cat(<<Wb, Lit(<<"o","f","f","e","r","e","i","n","g">>), Wb>>),
        replacement |-> <<"o","f","f","e","r","i","n","g">>],
    \* \bpreceeding\b -> 'preceding'
       [pattern |-> Cat(<<Wb, Lit(<<"p","r","e","c","e","e","d","i","n","g">>), Wb>>),
        replacement |-> <<"p","r","e","c","e","d","i","n","g">>],
    \* \bregretable\b -> 'regrettable'
       [pattern |-> Cat(<<Wb, Lit(<<"r","e","g","r","e","t","a","b","l","e">>), Wb>>),
        replacement |-> <<"r","e","g","r","e","t","t","a","b","l","e">>],
    \* \btravelling\b -> 'traveling'
       [pattern |-> Cat(<<Wb, Lit(<<"t","r","a","v","e","l","l","i","n","g">>), Wb>>),
        replacement |-> <<"t","r","a","v","e","l","i","n","g">>],
    \* \bneighbouring\b -> 'neighboring'
       [pattern |-> Cat(<<Wb, Lit(<<"n","e","i","g","h","b","o","u","r","i","n","g">>), Wb>>),
        replacement |-> <<"n","e","i","g","h","b","o","r","i","n","g">>],
    \* \bRumours\b -> 'Rumors'
       [pattern |-> Cat(<<Wb, Lit(<<"R","u","m","o","u","r","s">>), Wb>>),
        replacement |-> <<"R","u","m","o","r","s">>],
    \* \brumours\b -> 'rumors'
       [pattern |-> Cat(<<Wb, Lit(<<"r","u","m","o","u","r","s">>), Wb>>),
        replacement |-> <<"r","u","m","o","r","s">>],
    \* \bManchukoa\b -> 'Manchukuo'
       [pattern |-> Cat(<<Wb, Lit(<<"M","a","n","c","h","u","k","o","a">>), Wb>>),
        replacement |-> <<"M","a","n","c","h","u","k","u","o">>],
    \* \bTokio\b -> 'Tokyo'
       [pattern |-> Cat(<<Wb, Lit(<<"T","o","k","i","o">>), Wb>>),
        replacement |-> <<"T","o","k","y","o">>],
    \* \bAutomatio\b -> 'Automatic'
       [pattern |-> Cat(<<Wb, Lit(<<"A","u","t","o","m","a","t","i","o">>), Wb>>),
        replacement |-> <<"A","u","t","o","m","a","t","i","c">>],
    \* \bspecially\b -> 'especially'
       [pattern |-> Cat(<<Wb, Lit(<<"s","p","e","c","i","a","l","l","y">>), Wb>>),
        replacement |-> <<"e","s","p","e","c","i","a","l","l","y">>],
    \* \bover-estimated\b -> 'overestimated'
       [pattern |-> Cat(<<Wb, Lit(<<"o","v","e","r","-","e","s","t","i","m","a","t","e","d">>), Wb>>),
        replacement |-> <<"o","v","e","r","e","s","t","i","m","a","t","e","d">>],
    \* \bover-burdened\b -> 'overburdened'
       [pattern |-> Cat(<<Wb, Lit(<<"o","v","e","r","-","b","u","r","d","e","n","e","d">>), Wb>>),
        replacement |-> <<"o","v","e","r","b","u","r","d","e","n","e","d">>],
    \* \bG\.\$ -> 'G.$'
       [pattern |-> Cat(<<Wb, Lit(<<"G",".","$">>)>>),
        replacement |-> <<"G",".","$">>],
    \* \bU\.\s*S\.\s*A\. -> 'U.S.A.'
       [pattern |-> Cat(<<Wb, Lit(<<"U",".">>), Star(S), Lit(<<"S",".">>), Star(S), Lit(<<"A",".">>)>>),
        replacement |-> <<"U",".","S",".","A",".">>],
    \* \bW\.\s*C\.\s*2\. -> 'W.C.2.'
       [pattern |-> Cat(<<Wb, Lit(<<"W",".">>), Star(S), Lit(<<"C",".">>), Star(S), Lit(<<"2",".">>)>>),
        replacement |-> <<"W",".","C",".","2",".">>],
    \* \bP\.\s*A\.\s*X\. -> 'P.A.X.'
       [pattern |-> Cat(<<Wb, Lit(<<"P",".">>), Star(S), Lit(<<"A",".">>), Star(S), Lit(<<"X",".">>)>>),
        replacement |-> <<"P",".","A",".","X",".">>],
    \* \bHSB\/EMO\b -> 'HSB/EMO'
       [pattern |-> Cat(<<Wb, Lit(<<"H","S","B","/","E","M","O">>), Wb>>),
        replacement |-> <<"H","S","B","/","E","M","O">>],
    \* \b\d+\s+[A-Z]\s+\d+\b -> ''
       [pattern |-> Cat(<<Wb, Plus(D), Plus(S), AZ, Plus(S), Plus(D), Wb>>),
        replacement |-> <<>>],
    \* \bdan\s+t\b -> ''
       [pattern |-> Cat(<<Wb, Lit(<<"d","a","n">>), Plus(S), Ch("t"), Wb>>),
        replacement |-> <<>>],
    \* \b[A-Z]{1,2}\s+\d+\s+[A-Z]\s*\b -> ''
       [pattern |-> Cat(<<Wb, Rep(AZ, 1, 2), Plus(S), Plus(D), Plus(S), AZ, Star(S), Wb>>),
        replacement |-> <<>>],
    \* \b\d+\s+[A-Z]\s+\d+\s+[A-Z]\s*\b -> ''
       [pattern |-> Cat(<<Wb, Plus(D), Plus(S), AZ, Plus(S), Plus(D), Plus(S), AZ, Star(S), Wb>>),
        replacement |-> <<>>],
    \* \bContext:\s*$ -> ''
       [pattern |-> Cat(<<Wb, Lit(<<"C","o","n","t","e","x","t",":">>), Star(S), Eol>>),
        replacement |-> <<>>],
    \* \bOriginal:\s*IMG_\d+\.png\s*$ -> ''
       [pattern |-> Cat(<<Wb, Lit(<<"O","r","i","g","i","n","a","l",":">>), Star(S), Lit(<<"I","M","G","_">>), Plus(D), Lit(<<".","p","n","g">>), Star(S), Eol>>),
        replacement |-> <<>>],
    \* \bConfidence:\s*\d+%\s*$ -> ''
       [pattern |-> Cat(<<Wb, Lit(<<"C","o","n","f","i","d","e","n","c","e",":">>), Star(S), Plus(D), Ch("%"), Star(S), Eol>>),
        replacement |-> <<>>]
    >>

RECURSIVE ApplyFixes(_, _)

\* lines 140-141: the fixes one after the other, each with re.IGNORECASE
\* (Len(text) makes each step's text a value before the next step starts)
ApplyFixes(text, n) ==
    IF Len(text) >= 0 /\ n > Len(ocr_fixes) THEN text
    ELSE ApplyFixes(Sub(ocr_fixes[n].pattern, Const(ocr_fixes[n].replacement), text, IC),
                    n + 1)

\* \s+([,.!?;:])
SpaceBeforePunct == Cat(<<Plus(S), Cls({",",".","!","?",";",":"})>>)

\* ([,.!?;:])\s*([A-Z])
PunctBeforeUpper == Cat(<<Cls({",",".","!","?",";",":"}), Star(S), AZ>>)

\* ([a-z])([A-Z])
CamelCase == Cat(<<az, AZ>>)

\* \n\s*\n
ParagraphBreak == Cat(<<Ch("\n"), Star(S), Ch("\n")>>)

\* \n([A-Z])
NewlineUpper == Cat(<<Ch("\n"), AZ>>)

\* ^\s*\d+\s*$
LoneNumber == Cat(<<Bol, Star(S), Plus(D), Star(S), Eol>>)

\* ^\s*[A-Z]\s*$
LoneLetter == Cat(<<Bol, Star(S), AZ, Star(S), Eol>>)

\* ^\s*[A-Z]\d+\s*$
LoneCode == Cat(<<Bol, Star(S), AZ, Plus(D), Star(S), Eol>>)

\* lines 144-147: \s+ is Blanks
FixSpacing(text) ==
    Sub(CamelCase, [k |-> "first_sp_last"],
        Sub(PunctBeforeUpper, [k |-> "first_sp_last"],
            Sub(SpaceBeforePunct, [k |-> "last"],
                Sub(Blanks, Const(<<" ">>), text, NoFlags), NoFlags), NoFlags), NoFlags)

\* lines 150-151
FixParagraphs(text) ==
    Sub(NewlineUpper, [k |-> "nlnl_last"],
        Sub(ParagraphBreak, Const(<<"\n", "\n">>), text, NoFlags), NoFlags)

\* lines 154-156, each with re.MULTILINE
RemoveStandalone(text) ==
    Sub(LoneCode, Const(<<>>),
        Sub(LoneLetter, Const(<<>>),
            Sub(LoneNumber, Const(<<>>), text, ML), ML), ML)

\* lines 159-160: \n\s*\n\s*\n+ is BlankLines
FinalCleanup(text) == Sub(BlankLines, Const(<<"\n", "\n">>), Strip(text), NoFlags)

\* LogbookCleaner.clean_text
clean_text(text) ==
    IF text = <<>> THEN <<>>
    ELSE FinalCleanup(RemoveStandalone(FixParagraphs(FixSpacing(
             ApplyFixes(Sub(OcrArtifact, Const(<<>>), text, NoFlags), 1)))))

\* ----------------------------------------------- infer_date_from_content

\* LogbookCleaner._create_location_date_mapping: the items in dict order
location_to_date_mapping ==
    <<
       [loc |-> <<"c","h","i","c","a","g","o">>, date |-> <<"1","9","3","3","-","0","1">>],
       [loc |-> <<"n","e","w"," ","y","o","r","k">>, date |-> <<"1","9","3","3","-","0","1">>],
       [loc |-> <<"s","o","u","t","h","a","m","p","t","o","n">>, date |-> <<"1","9","3","3","-","0","1","-","2","8">>],
       [loc |-> <<"l","o","n","d","o","n">>, date |-> <<"1","9","3","3","-","0","1","-","2","9">>],
       [loc |-> <<"e","n","g","l","a","n","d">>, date |-> <<"1","9","3","3","-","0","2">>],
       [loc |-> <<"l","i","v","e","r","p","o","o","l">>, date |-> <<"1","9","3","3","-","0","2">>],
       [loc |-> <<"p","o","r","t","u","g","a","l">>, date |-> <<"1","9","3","3","-","0","2">>],
       [loc |-> <<"l","i","s","b","o","n">>, date |-> <<"1","9","3","3","-","0","2">>],
       [loc |-> <<"s","p","a","i","n">>, date |-> <<"1","9","3","3","-","0","2">>],
       [loc |-> <<"f","r","a","n","c","e">>, date |-> <<"1","9","3","3","-","0","3">>],
       [loc |-> <<"p","a","r","i","s">>, date |-> <<"1","9","3","3","-","0","3">>],
       [loc |-> <<"s","w","i","t","z","e","r","l","a","n","d">>, date |-> <<"1","9","3","3","-","0","3">>],
       [loc |-> <<"g","e","r","m","a","n","y">>, date |-> <<"1","9","3","3","-","0","3">>],
       [loc |-> <<"b","e","r","l","i","n">>, date |-> <<"1","9","3","3","-","0","3">>],
       [loc |-> <<"p","o","l","a","n","d">>, date |-> <<"1","9","3","3","-","0","4">>],
       [loc |-> <<"r","u","s","s","i","a">>, date |-> <<"1","9","3","3","-","0","4">>],
       [loc |-> <<"m","o","s","c","o","w">>, date |-> <<"1","9","3","3","-","0","4">>],
       [loc |-> <<"e","g","y","p","t">>, date |-> <<"1","9","3","3","-","0","4">>],
       [loc |-> <<"c","a","i","r","o">>, date |-> <<"1","9","3","3","-","0","4">>],
       [loc |-> <<"s","u","e","z">>, date |-> <<"1","9","3","3","-","0","4">>],
       [loc |-> <<"i","n","d","i","a">>, date |-> <<"1","9","3","3","-","0","5">>],
       [loc |-> <<"b","o","m","b","a","y">>, date |-> <<"1","9","3","3","-","0","5">>],
       [loc |-> <<"c","a","l","c","u","t","t","a">>, date |-> <<"1","9","3","3","-","0","5">>],
       [loc |-> <<"b","u","r","m","a">>, date |-> <<"1","9","3","3","-","0","5">>],
       [loc |-> <<"r","a","n","g","o","o","n">>, date |-> <<"1","9","3","3","-","0","5">>],
       [loc |-> <<"s","t","r","a","i","t","s"," ","s","e","t","t","l","e","m","e","n","t","s">>, date |-> <<"1","9","3","3","-","0","5">>],
       [loc |-> <<"s","i","n","g","a","p","o","r","e">>, date |-> <<"1","9","3","3","-","0","5">>],
       [loc |-> <<"k","u","a","l","a"," ","l","u","m","p","u","r">>, date |-> <<"1","9","3","3","-","0","5">>],
       [loc |-> <<"p","e","n","a","n","g">>, date |-> <<"1","9","3","3","-","0","5">>],
       [loc |-> <<"c","h","i","n","a">>, date |-> <<"1","9","3","3","-","0","6">>],
       [loc |-> <<"s","h","a","n","g","h","a","i">>, date |-> <<"1","9","3","3","-","0","6">>],
       [loc |-> <<"h","o","n","g"," ","k","o","n","g">>, date |-> <<"1","9","3","3","-","0","6">>],
       [loc |-> <<"h","o","n","g","k","o","n","g">>, date |-> <<"1","9","3","3","-","0","6">>],
       [loc |-> <<"n","a","n","k","i","n","g">>, date |-> <<"1","9","3","3","-","0","6">>],
       [loc |-> <<"p","e","k","i","n","g">>, date |-> <<"1","9","3","3","-","0","6">>],
       [loc |-> <<"t","i","e","n","t","s","i","n">>, date |-> <<"1","9","3","3","-","0","6">>],
       [loc |-> <<"j","a","p","a","n">>, date |-> <<"1","9","3","3","-","0","7">>],
       [loc |-> <<"t","o","k","y","o">>, date |-> <<"1","9","3","3","-","0","7">>],
       [loc |-> <<"y","o","k","o","h","a","m","a">>, date |-> <<"1","9","3","3","-","0","7">>],
       [loc |-> <<"p","h","i","l","i","p","p","i","n","e","s">>, date |-> <<"1","9","3","3","-","0","8">>],
       [loc |-> <<"m","a","n","i","l","a">>, date |-> <<"1","9","3","3","-","0","8">>],
       [loc |-> <<"h","a","w","a","i","i">>, date |-> <<"1","9","3","3","-","0","9">>],
       [loc |-> <<"h","o","n","o","l","u","l","u">>, date |-> <<"1","9","3","3","-","0","9">>],
       [loc |-> <<"p","a","c","i","f","i","c">>, date |-> <<"1","9","3","3","-","0","9">>],
       [loc |-> <<"s","a","n"," ","f","r","a","n","c","i","s","c","o">>, date |-> <<"1","9","3","3","-","0","9">>],
       [loc |-> <<"c","a","l","i","f","o","r","n","i","a">>, date |-> <<"1","9","3","3","-","0","9">>],
       [loc |-> <<"u","n","i","t","e","d"," ","s","t","a","t","e","s">>, date |-> <<"1","9","3","3","-","0","9">>],
       [loc |-> <<"a","m","e","r","i","c","a">>, date |-> <<"1","9","3","3","-","0","9">>]
    >>

\* lines 170-175: date_patterns, each searched with re.IGNORECASE
date_patterns ==
    <<
    \* (\d{1,2}(?:st|nd|rd|th)?\s+(?:January|February|March|April|May|June|July|August|September|October|November|December)[,\s]+1933)
       Cat(<<Rep(D, 1, 2), Opt(Alt(<<Lit(<<"s","t">>), Lit(<<"n","d">>), Lit(<<"r","d">>), Lit(<<"t","h">>)>>)), Plus(S), Alt(<<Lit(<<"J","a","n","u","a","r","y">>), Lit(<<"F","e","b","r","u","a","r","y">>), Lit(<<"M","a","r","c","h">>), Lit(<<"A","p","r","i","l">>), Lit(<<"M","a","y">>), Lit(<<"J","u","n","e">>), Lit(<<"J","u","l","y">>), Lit(<<"A","u","g","u","s","t">>), Lit(<<"S","e","p","t","e","m","b","e","r">>), Lit(<<"O","c","t","o","b","e","r">>), Lit(<<"N","o","v","e","m","b","e","r">>), Lit(<<"D","e","c","e","m","b","e","r">>)>>), Plus(Cls(SpaceSet \cup {","})), Lit(<<"1","9","3","3">>)>>),
    \* ((?:January|February|March|April|May|June|July|August|September|October|November|December)\s+\d{1,2}(?:st|nd|rd|th)?[,\s]+1933)
       Cat(<<Alt(<<Lit(<<"J","a","n","u","a","r","y">>), Lit(<<"F","e","b","r","u","a","r","y">>), Lit(<<"M","a","r","c","h">>), Lit(<<"A","p","r","i","l">>), Lit(<<"M","a","y">>), Lit(<<"J","u","n","e">>), Lit(<<"J","u","l","y">>), Lit(<<"A","u","g","u","s","t">>), Lit(<<"S","e","p","t","e","m","b","e","r">>), Lit(<<"O","c","t","o","b","e","r">>), Lit(<<"N","o","v","e","m","b","e","r">>), Lit(<<"D","e","c","e","m","b","e","r">>)>>), Plus(S), Rep(D, 1, 2), Opt(Alt(<<Lit(<<"s","t">>), Lit(<<"n","d">>), Lit(<<"r","d">>), Lit(<<"t","h">>)>>)), Plus(Cls(SpaceSet \cup {","})), Lit(<<"1","9","3","3">>)>>),
    \* (\d{1,2}\/\d{1,2}\/1933)
       Cat(<<Rep(D, 1, 2), Ch("/"), Rep(D, 1, 2), Lit(<<"/","1","9","3","3">>)>>),
    \* (1933[-\/]\d{1,2}[-\/]\d{1,2})
       Cat(<<Lit(<<"1","9","3","3">>), Cls({"-","/"}), Rep(D, 1, 2), Cls({"-","/"}), Rep(D, 1, 2)>>)
    >>

\* line 184: the formats, as the regular expressions datetime.strptime makes of them
strptime_formats ==
    <<
    \* '%d %B, %Y' : (3[0-1]|[1-2]\d|0[1-9]|[1-9]| [1-9])\s+(september|february|november|december|january|october|august|march|april|june|july|may),\s+(\d\d\d\d)
       Cat(<<Alt(<<Cat(<<Ch("3"), Cls({"0","1"})>>), Cat(<<Cls({"1","2"}), D>>), Cat(<<Ch("0"), Cls({"1","2","3","4","5","6","7","8","9"})>>), Cls({"1","2","3","4","5","6","7","8","9"}), Cat(<<Ch(" "), Cls({"1","2","3","4","5","6","7","8","9"})>>)>>), Plus(S), Alt(<<Lit(<<"s","e","p","t","e","m","b","e","r">>), Lit(<<"f","e","b","r","u","a","r","y">>), Lit(<<"n","o","v","e","m","b","e","r">>), Lit(<<"d","e","c","e","m","b","e","r">>), Lit(<<"j","a","n","u","a","r","y">>), Lit(<<"o","c","t","o","b","e","r">>), Lit(<<"a","u","g","u","s","t">>), Lit(<<"m","a","r","c","h">>), Lit(<<"a","p","r","i","l">>), Lit(<<"j","u","n","e">>), Lit(<<"j","u","l","y">>), Lit(<<"m","a","y">>)>>), Ch(","), Plus(S), Cat(<<D, D, D, D>>)>>),
    \* '%B %d, %Y' : (september|february|november|december|january|october|august|march|april|june|july|may)\s+(3[0-1]|[1-2]\d|0[1-9]|[1-9]| [1-9]),\s+(\d\d\d\d)
       Cat(<<Alt(<<Lit(<<"s","e","p","t","e","m","b","e","r">>), Lit(<<"f","e","b","r","u","a","r","y">>), Lit(<<"n","o","v","e","m","b","e","r">>), Lit(<<"d","e","c","e","m","b","e","r">>), Lit(<<"j","a","n","u","a","r","y">>), Lit(<<"o","c","t","o","b","e","r">>), Lit(<<"a","u","g","u","s","t">>), Lit(<<"m","a","r","c","h">>), Lit(<<"a","p","r","i","l">>), Lit(<<"j","u","n","e">>), Lit(<<"j","u","l","y">>), Lit(<<"m","a","y">>)>>), Plus(S), Alt(<<Cat(<<Ch("3"), Cls({"0","1"})>>), Cat(<<Cls({"1","2"}), D>>), Cat(<<Ch("0"), Cls({"1","2","3","4","5","6","7","8","9"})>>), Cls({"1","2","3","4","5","6","7","8","9"}), Cat(<<Ch(" "), Cls({"1","2","3","4","5","6","7","8","9"})>>)>>), Ch(","), Plus(S), Cat(<<D, D, D, D>>)>>),
    \* '%m/%d/%Y' : (1[0-2]|0[1-9]|[1-9])/(3[0-1]|[1-2]\d|0[1-9]|[1-9]| [1-9])/(\d\d\d\d)
       Cat(<<Alt(<<Cat(<<Ch("1"), Cls({"0","1","2"})>>), Cat(<<Ch("0"), Cls({"1","2","3","4","5","6","7","8","9"})>>), Cls({"1","2","3","4","5","6","7","8","9"})>>), Ch("/"), Alt(<<Cat(<<Ch("3"), Cls({"0","1"})>>), Cat(<<Cls({"1","2"}), D>>), Cat(<<Ch("0"), Cls({"1","2","3","4","5","6","7","8","9"})>>), Cls({"1","2","3","4","5","6","7","8","9"}), Cat(<<Ch(" "), Cls({"1","2","3","4","5","6","7","8","9"})>>)>>), Ch("/"), Cat(<<D, D, D, D>>)>>),
    \* '%Y-%m-%d' : (\d\d\d\d)-(1[0-2]|0[1-9]|[1-9])-(3[0-1]|[1-2]\d|0[1-9]|[1-9]| [1-9])
       Cat(<<Cat(<<D, D, D, D>>), Ch("-"), Alt(<<Cat(<<Ch("1"), Cls({"0","1","2"})>>), Cat(<<Ch("0"), Cls({"1","2","3","4","5","6","7","8","9"})>>), Cls({"1","2","3","4","5","6","7","8","9"})>>), Ch("-"), Alt(<<Cat(<<Ch("3"), Cls({"0","1"})>>), Cat(<<Cls({"1","2"}), D>>), Cat(<<Ch("0"), Cls({"1","2","3","4","5","6","7","8","9"})>>), Cls({"1","2","3","4","5","6","7","8","9"}), Cat(<<Ch(" "), Cls({"1","2","3","4","5","6","7","8","9"})>>)>>)>>)
    >>

\* match.group(1) of re.search(r, s, flags): each pattern is one group, and
\* its greedy match is the longest one
MatchText(r, s, f, i) == SubSeq(s, i, MaxOf(Ends(r, s, i, f)) - 1)

\* date_str.replace(',', '')
RemoveCommas(s) == SelectSeq(s, LAMBDA c : c # ",")

\* the k-th maximal run of characters of cs in s, <<>> if there are fewer
RunStarts(s, cs) == {i \in 1..Len(s) : s[i] \in cs /\ (i = 1 \/ s[i - 1] \notin cs)}

RunFrom(s, cs, i) ==
    SubSeq(s, i, (CHOOSE p \in i..Len(s) :
                     /\ \A n \in i..p : s[n] \in cs
                     /\ (p = Len(s) \/ s[p + 1] \notin cs)))

KthRun(s, cs, k) ==
    IF Cardinality(RunStarts(s, cs)) < k THEN <<>>
    ELSE RunFrom(s, cs, CHOOSE i \in RunStarts(s, cs) :
                            Cardinality({m \in RunStarts(s, cs) : m <= i}) = k)

RECURSIVE ToInt(_)

\* int(digits)
ToInt(digits) ==
    IF digits = <<>> THEN 0
    ELSE 10 * ToInt(SubSeq(digits, 1, Len(digits) - 1))
         + (CHOOSE d \in 0..9 : DigitChars[d + 1] = digits[Len(digits)])

MonthNames ==
    << <<"j","a","n","u","a","r","y">>, <<"f","e","b","r","u","a","r","y">>,
       <<"m","a","r","c","h">>, <<"a","p","r","i","l">>, <<"m","a","y">>, <<"j","u","n","e">>,
       <<"j","u","l","y">>, <<"a","u","g","u","s","t">>,
       <<"s","e","p","t","e","m","b","e","r">>, <<"o","c","t","o","b","e","r">>,
       <<"n","o","v","e","m","b","e","r">>, <<"d","e","c","e","m","b","e","r">> >>

MonthNumber(name) == CHOOSE m \in 1..12 : MonthNames[m] = StrLower(name)

\* the fields strptime reads from a text s that fits format n
DateFields(n, s) ==
    CASE n = 1 -> [year |-> ToInt(KthRun(s, DigitSet, 2)),
                   month |-> MonthNumber(KthRun(s, LowerSet \cup UpperSet, 1)),
                   day |-> ToInt(KthRun(s, DigitSet, 1))]
      [] n = 2 -> [year |-> ToInt(KthRun(s, DigitSet, 2)),
                   month |-> MonthNumber(KthRun(s, LowerSet \cup UpperSet, 1)),
                   day |-> ToInt(KthRun(s, DigitSet, 1))]
      [] n = 3 -> [year |-> ToInt(KthRun(s, DigitSet, 3)),
                   month |-> ToInt(KthRun(s, DigitSet, 1)),
                   day |-> ToInt(KthRun(s, DigitSet, 2))]
      [] n = 4 -> [year |-> ToInt(KthRun(s, DigitSet, 1)),
                   month |-> ToInt(KthRun(s, DigitSet, 2)),
                   day |-> ToInt(KthRun(s, DigitSet, 3))]

IsLeap(year) == year % 4 = 0 /\ (year % 100 # 0 \/ year % 400 = 0)

DaysIn(month, year) ==
    IF month = 2 THEN (IF IsLeap(year) THEN 29 ELSE 28)
    ELSE IF month \in {4, 6, 9, 11} THEN 30 ELSE 31

\* datetime(year, month, day) raises ValueError for a date that does not exist
ValidDate(d) ==
    d.year >= 1 /\ d.month \in 1..12 /\ d.day >= 1 /\ d.day <= DaysIn(d.month, d.year)

\* the digits of n in at least w places
RECURSIVE ZeroPad(_, _)

ZeroPad(digits, w) == IF Len(digits) >= w THEN digits ELSE ZeroPad(<<"0">> \o digits, w)

\* dt.strftime('%Y-%m-%d')
Strftime(d) ==
    ZeroPad(NatStr(d.year), 4) \o <<"-">> \o ZeroPad(NatStr(d.month), 2)
                               \o <<"-">> \o ZeroPad(NatStr(d.day), 2)

\* datetime.strptime(s, format n) does not raise ValueError: the whole of s
\* fits the format and the date exists
Strptime(n, s) ==
    /\ (Len(s) + 1) \in Ends(strptime_formats[n], s, 1, IC)
    /\ ValidDate(DateFields(n, s))

RECURSIVE TryFormats(_, _)

\* lines 184-189: the first format that parses s gives the date; None if none
TryFormats(s, n) ==
    IF n > Len(strptime_formats) THEN None
    ELSE IF Strptime(n, s) THEN Val("str", Strftime(DateFields(n, s)))
         ELSE TryFormats(s, n + 1)

\* the date of the match of pattern n that starts at i
DateOfMatch(content, n, i) ==
    TryFormats(RemoveCommas(MatchText(date_patterns[n], content, IC, i)), 1)

RECURSIVE ExplicitDate(_, _)

\* lines 177-191: the first pattern whose match parses gives the date
ExplicitDate(content, n) ==
    IF n > Len(date_patterns) THEN None
    ELSE IF /\ Search(date_patterns[n], content, IC)
            /\ DateOfMatch(content, n, FirstStart(date_patterns[n], content, IC)) # None
         THEN DateOfMatch(content, n, FirstStart(date_patterns[n], content, IC))
         ELSE ExplicitDate(content, n + 1)

RECURSIVE MappedDate(_, _)

\* lines 196-198 and 202-204: the first item of the mapping whose place is in text
MappedDate(text, n) ==
    IF n > Len(location_to_date_mapping) THEN None
    ELSE IF Contains(text, location_to_date_mapping[n].loc)
         THEN Val("str", location_to_date_mapping[n].date)
         ELSE MappedDate(text, n + 1)

\* lines 207-216
SequentialClue(content_lower) ==
    IF /\ Contains(content_lower, <<"a","r","r","i","v","e","d"," ","i","n"," ","j","a","p","a","n">>)
       /\ Contains(content_lower, <<"t","e","n","t","h"," ","o","f"," ","j","u","l","y">>)
    THEN Val("str", <<"1","9","3","3","-","0","7","-","1","0">>)
    ELSE IF /\ Contains(content_lower, <<"f","e","b","r","u","a","r","y">>)
            /\ Contains(content_lower, <<"l","o","n","d","o","n">>)
         THEN Val("str", <<"1","9","3","3","-","0","2","-","0","8">>)
         ELSE IF /\ Contains(content_lower, <<"j","a","n","u","a","r","y">>)
                 /\ (\/ Contains(content_lower, <<"c","h","i","c","a","g","o">>)
                     \/ Contains(content_lower, <<"h","a","r","r","i","s">>))
              THEN Val("str", <<"1","9","3","3","-","0","1","-","3","0">>)
              ELSE None

\* a, or b when a is None
OrElse(a, b) == IF a # None THEN a ELSE b

\* LogbookCleaner.infer_date_from_content: content and location are Python
\* values, and so is the date returned
infer_date_from_content(content, location) ==
    IF ~Truthy(content) THEN None
    ELSE OrElse(ExplicitDate(content.v, 1),
         OrElse(IF Truthy(location) THEN MappedDate(StrLower(location.v), 1) ELSE None,
         OrElse(MappedDate(StrLower(content.v), 1),
                SequentialClue(StrLower(content.v)))))

\* ----------------------------------------- extract_location_from_content

\* LogbookCleaner._create_known_locations
known_locations ==
    <<
       <<"C","h","i","c","a","g","o">>,
       <<"N","e","w"," ","Y","o","r","k">>,
       <<"S","o","u","t","h","a","m","p","t","o","n">>,
       <<"L","o","n","d","o","n">>,
       <<"E","n","g","l","a","n","d">>,
       <<"L","i","v","e","r","p","o","o","l">>,
       <<"P","o","r","t","u","g","a","l">>,
       <<"L","i","s","b","o","n">>,
       <<"S","p","a","i","n">>,
       <<"F","r","a","n","c","e">>,
       <<"P","a","r","i","s">>,
       <<"S","w","i","t","z","e","r","l","a","n","d">>,
       <<"G","e","r","m","a","n","y">>,
       <<"B","e","r","l","i","n">>,
       <<"P","o","l","a","n","d">>,
       <<"R","u","s","s","i","a">>,
       <<"M","o","s","c","o","w">>,
       <<"E","g","y","p","t">>,
       <<"C","a","i","r","o">>,
       <<"S","u","e","z">>,
       <<"I","n","d","i","a">>,
       <<"B","o","m","b","a","y">>,
       <<"C","a","l","c","u","t","t","a">>,
       <<"B","u","r","m","a">>,
       <<"R","a","n","g","o","o","n">>,
       <<"S","t","r","a","i","t","s"," ","S","e","t","t","l","e","m","e","n","t","s">>,
       <<"S","i","n","g","a","p","o","r","e">>,
       <<"K","u","a","l","a"," ","L","u","m","p","u","r">>,
       <<"P","e","n","a","n","g">>,
       <<"C","h","i","n","a">>,
       <<"S","h","a","n","g","h","a","i">>,
       <<"H","o","n","g"," ","K","o","n","g">>,
       <<"N","a","n","k","i","n","g">>,
       <<"P","e","k","i","n","g">>,
       <<"T","i","e","n","t","s","i","n">>,
       <<"J","a","p","a","n">>,
       <<"T","o","k","y","o">>,
       <<"Y","o","k","o","h","a","m","a">>,
       <<"P","h","i","l","i","p","p","i","n","e","s">>,
       <<"M","a","n","i","l","a">>,
       <<"H","a","w","a","i","i">>,
       <<"H","o","n","o","l","u","l","u">>,
       <<"S","a","n"," ","F","r","a","n","c","i","s","c","o">>,
       <<"C","a","l","i","f","o","r","n","i","a">>,
       <<"A","n","t","w","e","r","p">>,
       <<"M","e","l","b","o","u","r","n","e"," ","H","o","u","s","e">>
    >>

\* [A-Z][a-z]+(?:\s+[A-Z][a-z]+)*
PlaceName == Cat(<<AZ, Plus(az), Star(Cat(<<Plus(S), AZ, Plus(az)>>))>>)

\* (?:in|at|from|to)\s+
Preposition == Cat(<<Alt(<<Lit(<<"i","n">>), Lit(<<"a","t">>), Lit(<<"f","r","o","m">>), Lit(<<"t","o">>)>>), Plus(S)>>)

\* [,\s]+(?:Jan|Feb|Mar|Apr|May|Jun|Jul|Aug|Sep|Oct|Nov|Dec)
MonthAfter == Cat(<<Plus(Cls(SpaceSet \cup {","})), Alt(<<Lit(<<"J","a","n">>), Lit(<<"F","e","b">>), Lit(<<"M","a","r">>), Lit(<<"A","p","r">>), Lit(<<"M","a","y">>), Lit(<<"J","u","n">>), Lit(<<"J","u","l">>), Lit(<<"A","u","g">>), Lit(<<"S","e","p">>), Lit(<<"O","c","t">>), Lit(<<"N","o","v">>), Lit(<<"D","e","c">>)>>)>>)

\* I\s+(?:am|was|arrived)\s+(?:in|at)\s+
IAmIn == Cat(<<Ch("I"), Plus(S), Alt(<<Lit(<<"a","m">>), Lit(<<"w","a","s">>), Lit(<<"a","r","r","i","v","e","d">>)>>), Plus(S), Alt(<<Lit(<<"i","n">>), Lit(<<"a","t">>)>>), Plus(S)>>)

\* lines 224-228: location_patterns; each is pre(grp)post, the place name grp
\* being group 1
location_patterns ==
    << [pre |-> Preposition, grp |-> PlaceName, post |-> Cat(<<>>)],
       [pre |-> Cat(<<>>), grp |-> PlaceName, post |-> MonthAfter],
       [pre |-> IAmIn, grp |-> PlaceName, post |-> Cat(<<>>)] >>

WholePattern(p) == Cat(<<p.pre, p.grp, p.post>>)

\* where group 1 starts and ends in the match of p that starts at i: each part
\* takes the most it can with the rest still matching
GroupStart(p, s, i) ==
    MaxOf({g \in Ends(p.pre, s, i, NoFlags) :
              Ends(Cat(<<p.grp, p.post>>), s, g, NoFlags) # {}})

GroupEnd(p, s, g) ==
    MaxOf({e \in Ends(p.grp, s, g, NoFlags) : Ends(p.post, s, e, NoFlags) # {}})

IsKnown(name) == \E n \in 1..Len(known_locations) : known_locations[n] = name

RECURSIVE FirstKnown(_, _, _)
RECURSIVE FirstKnownAt(_, _, _)
RECURSIVE FirstKnownIn(_, _, _, _)

\* lines 231-234 for one pattern: the first of re.findall(p, s), from pos on,
\* that is a known location; <<>> if none is
FirstKnown(p, s, pos) == FirstKnownAt(p, s, NextMatch(WholePattern(p), s, NoFlags, pos))

FirstKnownAt(p, s, i) ==
    IF i = 0 THEN <<>>
    ELSE FirstKnownIn(p, s, GroupStart(p, s, i), GroupEnd(p, s, GroupStart(p, s, i)))

FirstKnownIn(p, s, g, e) ==
    IF IsKnown(SubSeq(s, g, e - 1)) THEN SubSeq(s, g, e - 1)
    ELSE FirstKnown(p, s, MaxOf(Ends(p.post, s, e, NoFlags)))

RECURSIVE ByPattern(_, _)

\* lines 230-234
ByPattern(content, n) ==
    IF n > Len(location_patterns) THEN <<>>
    ELSE IF FirstKnown(location_patterns[n], content, 1) # <<>>
         THEN FirstKnown(location_patterns[n], content, 1)
         ELSE ByPattern(content, n + 1)

RECURSIVE ByName(_, _)

\* lines 237-239: the first known location whose name is in the content,
\* letter case aside
ByName(content_lower, n) ==
    IF n > Len(known_locations) THEN None
    ELSE IF Contains(content_lower, StrLower(known_locations[n]))
         THEN Val("str", known_locations[n])
         ELSE ByName(content_lower, n + 1)

\* LogbookCleaner.extract_location_from_content: content and the location
\* returned are Python values
extract_location_from_content(content) ==
    IF ~Truthy(content) THEN None
    ELSE IF ByPattern(content.v, 1) # <<>> THEN Val("str", ByPattern(content.v, 1))
         ELSE ByName(StrLower(content.v), 1)

\* ------------------------------------------------------------ clean_entry

\* d.get(key, ''): the value, '' for an absent key
GetOrEmpty(x) == IF x.k = "absent" THEN Val("str", <<>>) ELSE x

\* lines 248-253: a text that is not empty is cleaned, anything else is kept
CleanedText(x) == IF Truthy(x) THEN Val("str", clean_text(x.v)) ELSE x

\* lines 256-263: the location is cleaned, or taken from the content
CleanedLocation(entry, extracted) ==
    IF Truthy(entry.location) THEN Val("str", clean_text(entry.location.v))
    ELSE IF Truthy(extracted) THEN extracted ELSE entry.location

\* lines 266-275 without the else of line 276, an inferred date replacing the
\* one the record has: what ExplicitDateKept tells from the code
DatedEntryInferred(entry, cleaned_entry, inferred) ==
    IF Truthy(inferred)
    THEN [cleaned_entry EXCEPT !.date_entry = inferred,
                               !.date_inferred = Val("bool", TRUE)]
    ELSE cleaned_entry

\* lines 266-277: location is cleaned_entry's, inferred the date inferred
DatedEntry(entry, cleaned_entry, inferred) ==
    IF ~Truthy(entry.date_entry)
    THEN IF Truthy(inferred)
         THEN [cleaned_entry EXCEPT !.date_entry = inferred,
                                    !.date_inferred = Val("bool", TRUE)]
         ELSE cleaned_entry
    ELSE [cleaned_entry EXCEPT !.date_inferred = Val("bool", FALSE)]

LocatedEntry(entry, location) ==
    DatedEntry(entry,
               [entry EXCEPT !.content = CleanedText(entry.content),
                             !.raw_ocr_text = CleanedText(entry.raw_ocr_text),
                             !.location = location],
               infer_date_from_content(GetOrEmpty(entry.content), GetOrEmpty(location)))

\* LogbookCleaner.clean_entry
clean_entry(entry) ==
    LocatedEntry(entry,
        CleanedLocation(entry,
            extract_location_from_content(GetOrEmpty(entry.content))))

\* ------------------------------------------------------------------ state

VARIABLES
    tool,             \* the tool main() runs: "cleaner", "combiner" or "digitizer"
    input_file,       \* the logbook main() loads: [entries, metadata]
    outputs,          \* what the runs of main() have written, in order
    logbook_data,     \* the dict handed to process_logbook or clean_logbook
    sorted_entries,   \* create_document_groups: the entries by page number
    used_indices,     \* ... the places (from 0) already in a group
    groups,           \* ... the DocumentGroups made so far
    i,                \* ... the place of the outer loop
    j,                \* ... the place of the inner loop
    group_entries,    \* ... the members of the open group
    group_indices,    \* ... and their places
    out_entries,      \* combined_entries / cleaned_entries / entries of the run
    result,           \* what the run returns
    now,              \* the clock datetime.now() reads
    pc,               \* where the run is
    err,              \* the exception that ended it, "" if none
    args,             \* the arguments of a call of one function
    value,            \* ... and what it returned
    png_files,        \* the digitizer's main(): the files of the input directory
    failed_files,     \* ... the files whose pass raised
    processing_stats, \* ... the count of each method, and of the failures
    confidence_scores, \* ... the confidence of each entry
    report,           \* ... the processing report
    written           \* ... the names of the files written

\* create_document_groups' local variables
loop_vars == <<sorted_entries, used_indices, groups, i, j, group_entries, group_indices>>

call_vars == <<args, value>>

\* the digitizer's main(): its local variables and what it writes
digitizer_vars ==
    <<png_files, failed_files, processing_stats, confidence_scores, report, written>>

vars == <<tool, input_file, outputs, logbook_data, loop_vars, out_entries, result, now,
          pc, err, call_vars, digitizer_vars>>

\* the clock does not run past MaxClock
MaxClock == 2

\* a metadata dict: the keys the two tools write, and the one the input has
NoMetadata ==
    [total_entries |-> Absent, cleaned_date |-> Absent, cleaned_entries |-> Absent,
     combined_date |-> Absent, original_entries |-> Absent,
     combined_entries |-> Absent, documents_combined |-> Absent]

NoResult == [entries |-> <<>>, metadata |-> NoMetadata]

\* lines 317-322 of the digitizer: no file has been counted
NoStats == [tesseract |-> 0, google_vision |-> 0, openai_vision |-> 0, failed |-> 0]

NoReport ==
    [start_time |-> <<>>, end_time |-> <<>>, total_files_attempted |-> 0,
     successful_files |-> 0, failed_files |-> 0, method_statistics |-> NoStats,
     failed_list |-> <<>>]

\* the variables of a run that has not started
Fresh ==
    /\ sorted_entries = <<>>
    /\ used_indices = {}
    /\ groups = <<>>
    /\ i = 0
    /\ j = 0
    /\ group_entries = <<>>
    /\ group_indices = {}
    /\ out_entries = <<>>
    /\ result = NoResult
    /\ err = ""
    /\ failed_files = <<>>
    /\ processing_stats = NoStats
    /\ confidence_scores = <<>>
    /\ report = NoReport
    /\ written = <<>>

\* no function is called on its own
NoCall == args = <<>> /\ value = <<>>

\* no tool runs
NoRun ==
    /\ tool = ""
    /\ input_file = NoResult
    /\ outputs = <<>>
    /\ logbook_data = NoResult
    /\ now = 0
    /\ png_files = <<>>
    /\ Fresh

\* datetime.now().isoformat() of a clock reading
IsoFormat(t) == <<"T", t>>

\* the clock readings a call of datetime.now() can return
Readings == {t \in now..(now + 1) : t <= MaxClock}

\* ------------------------------------------------------------------- main

\* main() of either tool loads the logbook from its file
Load ==
    /\ pc = "main"
    /\ logbook_data' = input_file
    /\ pc' = IF tool = "cleaner" THEN "clean_logbook" ELSE "process_logbook"
    /\ UNCHANGED <<digitizer_vars, tool, input_file, outputs, loop_vars, out_entries, result, now, err,
                   call_vars>>

\* ... and writes what the tool returned
Save ==
    /\ pc = "returned"
    /\ outputs' = Append(outputs, result)
    /\ pc' = "saved"
    /\ UNCHANGED <<digitizer_vars, tool, input_file, logbook_data, loop_vars, out_entries, result, now,
                   err, call_vars>>

\* ------------------------------------------------------- process_logbook

\* lines 314-318: the empty list returns at once; the sort may raise
CombinerStart ==
    /\ pc = "process_logbook"
    /\ IF logbook_data.entries = <<>>
       THEN pc' = "convert" /\ UNCHANGED <<sorted_entries, err>>
       ELSE IF SortRaises(logbook_data.entries)
            THEN pc' = "raised" /\ err' = "TypeError" /\ UNCHANGED sorted_entries
            ELSE /\ sorted_entries' = SortByPage(logbook_data.entries)
                 /\ pc' = "outer"
                 /\ UNCHANGED err
    /\ UNCHANGED <<digitizer_vars, tool, input_file, outputs, logbook_data, used_indices, groups, i, j,
                   group_entries, group_indices, out_entries, result, now, call_vars>>

\* lines 323-333: one pass of the outer loop, up to the opening of a group
OuterStep ==
    /\ pc = "outer"
    /\ IF i >= Len(sorted_entries)
       THEN pc' = "convert" /\ i' = 0
            /\ UNCHANGED <<j, group_entries, group_indices, err>>
       ELSE IF i \in used_indices
            THEN i' = i + 1 /\ UNCHANGED <<pc, j, group_entries, group_indices, err>>
            ELSE IF ContentRaises(sorted_entries[i + 1])
                 THEN pc' = "raised" /\ err' = "AttributeError"
                      /\ UNCHANGED <<i, j, group_entries, group_indices>>
                 ELSE IF TooShort(sorted_entries[i + 1])
                      THEN i' = i + 1
                           /\ UNCHANGED <<pc, j, group_entries, group_indices, err>>
                      ELSE /\ group_entries' = <<sorted_entries[i + 1]>>
                           /\ group_indices' = {i}
                           /\ j' = i + 1
                           /\ pc' = "inner"
                           /\ UNCHANGED <<i, err>>
    /\ UNCHANGED <<digitizer_vars, tool, input_file, outputs, logbook_data, sorted_entries, used_indices,
                   groups, out_entries, result, now, call_vars>>

\* lines 336-350: one pass of the inner loop
InnerStep ==
    /\ pc = "inner"
    /\ IF j >= InnerStop(i, Len(sorted_entries))
       THEN pc' = "close" /\ UNCHANGED <<j, group_entries, group_indices, err>>
       ELSE IF j \in used_indices
            THEN j' = j + 1 /\ UNCHANGED <<pc, group_entries, group_indices, err>>
            ELSE IF ContentRaises(sorted_entries[j + 1])
                 THEN pc' = "raised" /\ err' = "AttributeError"
                      /\ UNCHANGED <<j, group_entries, group_indices>>
                 ELSE IF Absorbs(group_entries[Len(group_entries)], sorted_entries[j + 1])
                      THEN /\ group_entries' = Append(group_entries, sorted_entries[j + 1])
                           /\ group_indices' = group_indices \cup {j}
                           /\ j' = j + 1
                           /\ UNCHANGED <<pc, err>>
                      ELSE IF StopsLooking(group_entries)
                           THEN pc' = "close"
                                /\ UNCHANGED <<j, group_entries, group_indices, err>>
                           ELSE j' = j + 1
                                /\ UNCHANGED <<pc, group_entries, group_indices, err>>
    /\ UNCHANGED <<digitizer_vars, tool, input_file, outputs, logbook_data, sorted_entries, used_indices,
                   groups, i, out_entries, result, now, call_vars>>

\* lines 352-391: the group is made and its places are marked used
CloseGroup ==
    /\ pc = "close"
    /\ used_indices' = MarkUsed(used_indices, group_indices)
    /\ groups' = Append(groups, MakeGroup(sorted_entries[i + 1], i, group_entries))
    /\ i' = i + 1
    /\ pc' = "outer"
    /\ UNCHANGED <<digitizer_vars, tool, input_file, outputs, logbook_data, sorted_entries, j,
                   group_entries, group_indices, out_entries, result, now, err, call_vars>>

\* lines 482-499: the combined entry of a group, stamped at time t
CombinedEntry(group, t) ==
    [filename |-> <<"c","o","m","b","i","n","e","d","_">> \o group.id,
     page_number |-> IF group.entries[1].page_number.k = "absent" THEN Val("int", 0)
                     ELSE group.entries[1].page_number,
     date_entry |-> group.date_entry,
     location |-> group.location,
     content |-> Val("str", group.combined_content),
     raw_ocr_text |-> Val("str", <<>>),
     confidence_score |-> group.confidence,
     processing_method |-> "ai_combined",
     timestamp |-> IsoFormat(t),
     date_inferred |-> group.date_inferred,
     document_type |-> group.document_type,
     document_title |-> group.title,
     is_combined |-> TRUE,
     is_complete |-> group.is_complete,
     source_entries |-> [n \in 1..Len(group.entries) |-> group.entries[n].filename],
     entry_count |-> Len(group.entries)]

\* lines 480-501: one pass of the loop over document_groups (i counts them)
ConvertGroup ==
    /\ pc = "convert"
    /\ i < Len(groups)
    /\ \E t \in Readings :
          /\ now' = t
          /\ out_entries' = Append(out_entries, CombinedEntry(groups[i + 1], t))
    /\ i' = i + 1
    /\ UNCHANGED <<digitizer_vars, tool, input_file, outputs, logbook_data, sorted_entries, used_indices,
                   groups, j, group_entries, group_indices, result, pc, err, call_vars>>

\* lines 503-509: the four keys the Combiner writes
CombinerMetadata(metadata, t, n_entries, n_combined, n_documents) ==
    [metadata EXCEPT !.combined_date = Val("time", IsoFormat(t)),
                     !.original_entries = Val("int", n_entries),
                     !.combined_entries = Val("int", n_combined),
                     !.documents_combined = Val("int", n_documents)]

\* result is a shallow copy of logbook_data, so result['metadata'] is the very
\* dict logbook_data['metadata']: metadata is written into both
Returned(entries, metadata) ==
    /\ result' = [entries |-> entries, metadata |-> metadata]
    /\ logbook_data' = [logbook_data EXCEPT !.metadata = metadata]

\* lines 503-511
CombinerFinish ==
    /\ pc = "convert"
    /\ i >= Len(groups)
    /\ \E t \in Readings :
          /\ now' = t
          /\ Returned(out_entries,
                 CombinerMetadata(logbook_data.metadata, t, Len(logbook_data.entries),
                     Len(out_entries),
                     Cardinality({n \in 1..Len(groups) : Len(groups[n].entries) > 1})))
    /\ pc' = "returned"
    /\ UNCHANGED <<digitizer_vars, tool, input_file, outputs, loop_vars, out_entries, err, call_vars>>

NextCombiner ==
    \/ CombinerStart
    \/ OuterStep
    \/ InnerStep
    \/ CloseGroup
    \/ ConvertGroup
    \/ CombinerFinish

\* ---------------------------------------------------------- clean_logbook

\* lines 287-289: one pass of the loop over the entries (i counts them)
CleanStep ==
    /\ pc = "clean_logbook"
    /\ i < Len(logbook_data.entries)
    /\ out_entries' = Append(out_entries, clean_entry(logbook_data.entries[i + 1]))
    /\ i' = i + 1
    /\ UNCHANGED <<digitizer_vars, tool, input_file, outputs, logbook_data, sorted_entries, used_indices,
                   groups, j, group_entries, group_indices, result, now, pc, err,
                   call_vars>>

\* the count of line 295 moved by the reading of the clock: what
\* RerunSameButStamps tells from the code
CleanerMetadataTimed(metadata, t, n_cleaned) ==
    [metadata EXCEPT !.cleaned_date = Val("time", IsoFormat(t)),
                     !.cleaned_entries = Val("int", n_cleaned + t)]

\* lines 294-295: the two keys the Cleaner writes
CleanerMetadata(metadata, t, n_cleaned) ==
    [metadata EXCEPT !.cleaned_date = Val("time", IsoFormat(t)),
                     !.cleaned_entries = Val("int", n_cleaned)]

\* lines 291-297
CleanerFinish ==
    /\ pc = "clean_logbook"
    /\ i >= Len(logbook_data.entries)
    /\ \E t \in Readings :
          /\ now' = t
          /\ Returned(out_entries,
                      CleanerMetadata(logbook_data.metadata, t, Len(out_entries)))
    /\ pc' = "returned"
    /\ UNCHANGED <<digitizer_vars, tool, input_file, outputs, loop_vars, out_entries, err, call_vars>>

NextCleaner ==
    \/ CleanStep
    \/ CleanerFinish

\* ----------------------------------------------------------------- re-run

\* main() is started again on the same input file, at a later time
Rerun ==
    /\ pc = "saved"
    /\ Len(outputs) < 2
    /\ now < MaxClock
    /\ now' = now + 1
    /\ pc' = "main"
    /\ logbook_data' = NoResult
    /\ sorted_entries' = <<>>
    /\ used_indices' = {}
    /\ groups' = <<>>
    /\ i' = 0
    /\ j' = 0
    /\ group_entries' = <<>>
    /\ group_indices' = {}
    /\ out_entries' = <<>>
    /\ result' = NoResult
    /\ UNCHANGED <<digitizer_vars, tool, input_file, outputs, err, call_vars>>

\* ------------------------------------------------- calls of one function

\* is_continuation(entry1, entry2)
CallContinuation ==
    /\ pc = "call"
    /\ value' = is_continuation(args[1], args[2])
    /\ pc' = "done"
    /\ UNCHANGED <<digitizer_vars, tool, input_file, outputs, logbook_data, loop_vars, out_entries,
                   result, now, err, args>>

\* combine_entries(entries)
CallCombine ==
    /\ pc = "call"
    /\ value' = combine_entries(args[1])
    /\ pc' = "done"
    /\ UNCHANGED <<digitizer_vars, tool, input_file, outputs, logbook_data, loop_vars, out_entries,
                   result, now, err, args>>

\* create_document_title(doc_type, content, location, date)
CallTitle ==
    /\ pc = "call"
    /\ value' = create_document_title(args[1], args[2], args[3], args[4])
    /\ pc' = "done"
    /\ UNCHANGED <<digitizer_vars, tool, input_file, outputs, logbook_data, loop_vars, out_entries,
                   result, now, err, args>>

\* identify_document_type(content)
CallType ==
    /\ pc = "call"
    /\ value' = identify_document_type(args[1])
    /\ pc' = "done"
    /\ UNCHANGED <<digitizer_vars, tool, input_file, outputs, logbook_data, loop_vars, out_entries,
                   result, now, err, args>>

\* infer_date_from_content(content, location)
CallInferDate ==
    /\ pc = "call"
    /\ value' = infer_date_from_content(args[1], args[2])
    /\ pc' = "done"
    /\ UNCHANGED <<digitizer_vars, tool, input_file, outputs, logbook_data, loop_vars, out_entries,
                   result, now, err, args>>

\* clean_text(text)
CallCleanText ==
    /\ pc = "call"
    /\ value' = <<clean_text(args[1])>>
    /\ pc' = "once"
    /\ UNCHANGED <<digitizer_vars, tool, input_file, outputs, logbook_data, loop_vars, out_entries,
                   result, now, err, args>>

\* clean_text of what clean_text returned
CallCleanTextAgain ==
    /\ pc = "once"
    /\ value' = Append(value, clean_text(value[1]))
    /\ pc' = "twice"
    /\ UNCHANGED <<digitizer_vars, tool, input_file, outputs, logbook_data, loop_vars, out_entries,
                   result, now, err, args>>

\* clean_entry(entry)
CallCleanEntry ==
    /\ pc = "call"
    /\ value' = <<clean_entry(args[1])>>
    /\ pc' = "once"
    /\ UNCHANGED <<digitizer_vars, tool, input_file, outputs, logbook_data, loop_vars, out_entries,
                   result, now, err, args>>

\* clean_entry of what clean_entry returned
CallCleanEntryAgain ==
    /\ pc = "once"
    /\ value' = Append(value, clean_entry(value[1]))
    /\ pc' = "twice"
    /\ UNCHANGED <<digitizer_vars, tool, input_file, outputs, logbook_data, loop_vars, out_entries,
                   result, now, err, args>>

\* ----------------------------------------------------------------- inputs

\* texts of the pages the runs are given
Greeting == <<"D","e","a","r"," ","M","r"," ","S","m","i","t","h",","," ","I"," ","w","r","i","t","e">>

LetterBody == <<"t","h","e"," ","s","h","i","p"," ","s","a","i","l","e","d"," ","a","n","d"," ","t","h","e"," ","w","e","a","t","h","e","r"," ","w","a","s">>

Closing == <<"Y","o","u","r","s"," ","s","i","n","c","e","r","e","l","y",","," ","E",".","K","."," ","G","a","n","n">>

ColdIndeed == <<"v","e","r","y"," ","c","o","l","d"," ","i","n","d","e","e","d",".">>

\* 19 characters, and 23 with the blanks around them
Kobe == <<" "," ","I","t"," ","w","a","s"," ","c","o","l","d"," ","i","n"," ","K","o","b","e"," "," ">>

\* 20 characters
TokyoCold == <<"I","t"," ","w","a","s"," ","c","o","l","d"," ","i","n"," ","T","o","k","y","o">>

Tokyo == <<"T","o","k","y","o">>

July == <<"1","9","3","3","-","0","7">>

May == <<"1","9","3","3","-","0","5">>

Page(filename, page_number, date_entry, date_inferred, location, content) ==
    [filename |-> filename, page_number |-> page_number, date_entry |-> date_entry,
     date_inferred |-> date_inferred, location |-> location, content |-> content,
     raw_ocr_text |-> content]

\* AIDigitizer._extract_page_number: the first run of digits of the file
\* name as an int, None when the name holds no digit
_extract_page_number(filename) ==
    IF KthRun(filename, DigitSet, 1) = <<>> THEN None
    ELSE Val("int", ToInt(KthRun(filename, DigitSet, 1)))

Scan == <<"s","c","a","n",".","j","p","g">>

Scan2 == <<"s","c","a","n","_","0","2",".","j","p","g">>

\* the pages a Combiner run's list is drawn from; the filename is given by the
\* place, the page number is the one the digitizer took from the scan's name
RecordPool ==
    {Page("", Val("int", 1), Val("str", July), Val("bool", FALSE), Val("str", Tokyo),
          Val("str", Greeting)),
     Page("", _extract_page_number(Scan2), Val("str", July), Val("bool", TRUE),
          Val("str", Tokyo), Val("str", LetterBody)),
     Page("", Val("int", 3), None, Absent, Val("str", Tokyo), Val("str", Closing)),
     Page("", Val("int", 2), Absent, Absent, None, Val("str", ColdIndeed)),
     Page("", Absent, Absent, Absent, Absent, Val("str", Kobe)),
     Page("", _extract_page_number(Scan), None, Val("bool", FALSE), None,
          Val("str", TokyoCold))}

\* the longest list of pages a run is given
MaxEntries == 2

\* unique file names, by the place in the list
Named(es) == [n \in 1..Len(es) |-> [es[n] EXCEPT !.filename = <<"p", n>>]]

InputMetadata == [NoMetadata EXCEPT !.total_entries = Val("int", 0)]

Lists(pool, min, max) == UNION {[1..n -> pool] : n \in min..max}

Logbooks(pool, max) ==
    {[entries |-> Named(es), metadata |-> InputMetadata] : es \in Lists(pool, 0, max)}

\* main() of tool t is about to start
Start(t) ==
    /\ tool = t
    /\ outputs = <<>>
    /\ logbook_data = NoResult
    /\ now = 0
    /\ pc = "main"
    /\ png_files = <<>>
    /\ Fresh
    /\ NoCall

\* ---- the Combiner, run once

Init ==
    /\ input_file \in Logbooks(RecordPool, MaxEntries)
    /\ Start("combiner")

Next ==
    \/ Load
    \/ NextCombiner
    \/ Save

Spec == Init /\ [][Next]_vars

\* ---- a letter of three pages, through the Combiner

GreetingDone == <<"D","e","a","r"," ","M","r"," ","S","m","i","t","h",","," ","I"," ","w","r","i","t","e"," ","t","o"," ","t","e","l","l"," ","y","o","u"," ","o","f"," ","t","h","e"," ","v","o","y","a","g","e",".">>

LetterBodyUpper == <<"T","h","e"," ","s","h","i","p"," ","s","a","i","l","e","d"," ","a","n","d"," ","t","h","e"," ","w","e","a","t","h","e","r"," ","w","a","s">>

ClosingLong == <<"v","e","r","y"," ","c","o","l","d"," ","i","n","d","e","e","d","."," ","Y","o","u","r","s"," ","t","r","u","l","y",","," ","E","r","n","e","s","t"," ","K","."," ","G","a","n","n">>

\* one page of the letter: every page has the same date and location
LetterPage(page_number, content) ==
    Page("", Val("int", page_number), Val("str", July), Val("bool", FALSE),
         Val("str", Tokyo), Val("str", content))

\* a greeting of at least 20 characters on page first, a body that ends in
\* the middle of a sentence on the next page, closing and signature on the third
Letters ==
    {[entries |-> Named(<<LetterPage(first, greeting), LetterPage(first + 1, body),
                          LetterPage(first + 2, closing)>>),
      metadata |-> InputMetadata] :
        first \in {0, 1}, greeting \in {Greeting, GreetingDone},
        body \in {LetterBody, LetterBodyUpper}, closing \in {Closing, ClosingLong}}

InitLetter ==
    /\ input_file \in Letters
    /\ Start("combiner")

SpecLetter == InitLetter /\ [][Next]_vars

\* ---- the Cleaner, run once

PerCent == <<"1","0"," ","p","e","r"," "," ","c","e","n","t"," ","o","f"," ","t","h","e"," ","R","u","m","o","u","r","s">>

InTokyo == <<"W","e"," ","a","r","r","i","v","e","d"," ","i","n"," ","T","o","k","y","o"," ","t","o","d","a","y",".">>

\* the pages a Cleaner run's list is drawn from
CleanerPool ==
    {Page("", Val("int", 1), Val("str", May), Val("bool", TRUE), Val("str", Tokyo),
          Val("str", TokyoCold)),
     Page("", Val("int", 2), None, Absent, None, Val("str", InTokyo)),
     Page("", Val("int", 3), Absent, Absent, Absent, None),
     Page("", None, Val("str", July), Absent, None, Val("str", PerCent)),
     Page("", Val("int", 5), Val("str", <<>>), Absent, Val("str", Tokyo), Absent)}

InitCleaner ==
    /\ input_file \in Logbooks(CleanerPool, MaxEntries)
    /\ Start("cleaner")

NextCleanerRun ==
    \/ Load
    \/ NextCleaner
    \/ Save

SpecCleaner == InitCleaner /\ [][NextCleanerRun]_vars

\* ---- either tool, run twice on one input file

RerunPool ==
    {Page("", Val("int", 1), Val("str", July), Val("bool", FALSE), Val("str", Tokyo),
          Val("str", Greeting)),
     Page("", Val("int", 2), None, Absent, None, Val("str", LetterBody))}

InitRerun ==
    /\ input_file \in Logbooks(RerunPool, MaxEntries)
    /\ \E t \in {"cleaner", "combiner"} : Start(t)

NextRerun ==
    \/ Load
    \/ NextCombiner
    \/ NextCleaner
    \/ Save
    \/ Rerun

SpecRerun == InitRerun /\ [][NextRerun]_vars

\* ---- one call of a function: nothing runs but the call

Called(arguments) ==
    /\ args \in arguments
    /\ value = <<>>
    /\ pc = "call"
    /\ NoRun

\* is_continuation: the first and the second entry of the call
KobeJapan == <<"K","o","b","e",","," ","J","a","p","a","n">>

FirstEntries ==
    {Page("", f[1], f[2], Absent, f[3], Val("str", content)) :
        f \in {<<None, Absent, None>>,
               <<Val("int", 1), Val("str", July), Val("str", Tokyo)>>,
               <<Val("int", 0), Val("str", May), Val("str", KobeJapan)>>},
        content \in {<<"i","t"," ","w","a","s">>, <<"a","n","d"," ","s","o",",">>, <<"w","e"," ","s","a","t",";"," "," ">>, <<"A","n","d"," ","t","h","e","n",".",".",".">>,
                     <<"I","t"," ","w","a","s",".">>}}

SecondEntries ==
    {Page("", f[1], f[2], Absent, f[3], Val("str", content)) :
        f \in {<<Absent, None, Absent>>,
               <<Val("int", 2), Val("str", July), Val("str", Tokyo)>>,
               <<Val("int", 9), Val("str", May), Val("str", <<"k","o","b","e">>)>>},
        content \in {<<"v","e","r","y"," ","c","o","l","d",".">>, <<" ","a","t"," ","s","e","a">>, <<"V","e","r","y"," ","c","o","l","d",".">>}}

InitContinuation == Called(FirstEntries \X SecondEntries)

SpecContinuation == InitContinuation /\ [][CallContinuation]_vars

\* combine_entries: lists of one or two entries
CombinePool ==
    {Page("", Val("int", 1), None, Absent, None, content) :
        content \in {Val("str", Kobe), Val("str", Greeting), Val("str", LetterBody),
                     Val("str", <<"P","a","g","e"," ","3"," "," ","t","h","e"," ","s","h","i","p">>), Val("str", <<"(","4",")"," ","S","o"," ","i","t"," "," ","w","a","s",",">>),
                     Val("str", <<"-","5","-"," ","i","t","\n","\n","\n","w","a","s">>), Absent}}

InitCombine == Called({<<es>> : es \in Lists(CombinePool, 1, MaxEntries)})

SpecCombine == InitCombine /\ [][CallCombine]_vars

\* infer_date_from_content: a content and a location
DateContents ==
    {Val("str", <<>>), None, Val("str", <<"I","t"," ","w","a","s"," ","c","o","l","d">>), Val("str", TokyoCold),
     Val("str", <<"o","n"," ","1","9","3","3","-","0","7","-","0","4"," ","a","t"," ","s","e","a">>), Val("str", <<"J","u","l","y"," ","4",","," ","1","9","3","3">>),
     Val("str", <<"7","/","4","/","1","9","3","3"," ","i","n"," ","K","o","b","e">>), Val("str", <<"F","e","b","r","u","a","r","y"," ","i","n"," ","L","o","n","d","o","n">>)}

DateLocations ==
    {Val("str", Tokyo), Val("str", <<"T","O","K","Y","O"," ","B","A","Y">>), Val("str", KobeJapan),
     Val("str", <<"P","a","r","i","s">>), Val("str", <<>>), None, Val("str", <<"a","t"," ","s","e","a">>)}

InitInferDate == Called(DateContents \X DateLocations)

SpecInferDate == InitInferDate /\ [][CallInferDate]_vars

\* clean_text: two words and what is between them
CleanWords == {<<"p","e","r">>, <<"c","e","n","t">>, <<"R","u","m","o","u","r","s">>, <<"Q","7">>, <<"t","h","e">>}

CleanTexts ==
    {a \o sep \o b : a \in CleanWords, b \in CleanWords, sep \in {<<" ">>, <<" ", " ">>}}

InitCleanText == Called({<<text>> : text \in CleanTexts})

NextCleanText ==
    \/ CallCleanText
    \/ CallCleanTextAgain

SpecCleanText == InitCleanText /\ [][NextCleanText]_vars

\* create_document_title: a type, a content, a location and a date
TitleTypes == {"letter", "telegram", "report", "list", "narrative", "unknown"}

TitleContents ==
    {TokyoCold, <<>>, Greeting, <<"T","O","K","Y","O",","," ","J","U","L","Y"," ","4"," ","A","R","R","I","V","E","D"," ","S","A","F","E","L","Y">>, <<"G","E","N","E","R","A","L"," ","S","I","T","U","A","T","I","O","N"," ","i","n"," ","t","h","e"," ","e","a","s","t">>,
     <<"L","I","S","T"," ","O","F"," ","S","T","O","R","E","S">>, <<"Y","o","u","r","s"," ","t","r","u","l","y",","," ","A","."," ","B","."," ","S","m","i","t","h">>}

TitlePlaces == {None, Val("str", <<>>), Val("str", Tokyo)}

TitleDates == {None, Val("str", <<>>), Val("str", July)}

InitTitle == Called(TitleTypes \X TitleContents \X TitlePlaces \X TitleDates)

SpecTitle == InitTitle /\ [][CallTitle]_vars

\* identify_document_type: a start of a content and an end of it
TypeStarts ==
    {<<"i","t"," ","w","a","s"," ","c","o","l","d">>, <<"D","e","a","r"," ","M","r"," ","S","m","i","t","h">>, <<"1","."," ","T","h","i","n","g">>, <<"m","y"," ","d","e","a","r">>, <<"I"," ","m","e","t"," ","h","i","m">>,
     <<"L","I","S","T"," ","O","F"," ","s","t","o","r","e","s">>, <<"T","O","K","Y","O",","," ","J","U","L","Y","."," ","4">>, <<"P","a","g","e"," ","3">>, <<"(","1",")"," ","i","t","e","m">>, <<"G","E","N","E","R","A","L"," ","S","I","T","U","A","T","I","O","N">>}

TypeEnds == {<<>>, <<" ","t","o","d","a","y",".">>, <<" ","a","n","d">>, <<";">>, <<"\n","E","N","D"," ","O","F"," ","L","I","S","T">>, <<"\n","G","A","N","N">>}

InitType == Called({<<a \o b>> : a \in TypeStarts, b \in TypeEnds})

SpecType == InitType /\ [][CallType]_vars

\* infer_date_from_content on contents that hold a month and a place in
\* words, in either order, and no location
ClueMonths == {<<"I","n"," ","J","a","n","u","a","r","y">>, <<"i","n"," ","f","e","b","r","u","a","r","y">>, <<"t","h","e"," ","t","e","n","t","h"," ","o","f"," ","J","u","l","y">>, <<"i","n"," ","M","a","r","c","h">>}

CluePlaces == {<<"w","e"," ","m","e","t"," ","H","a","r","r","i","s">>, <<"a","t"," ","C","h","i","c","a","g","o">>, <<"L","o","n","d","o","n"," ","w","a","s"," ","c","o","l","d">>, <<"w","e"," ","a","r","r","i","v","e","d"," ","i","n"," ","J","a","p","a","n">>, <<"a","t"," ","s","e","a">>}

ClueContents ==
    {Val("str", a \o <<" ">> \o b) : a \in ClueMonths, b \in CluePlaces}
    \cup {Val("str", b \o <<" ">> \o a) : a \in ClueMonths, b \in CluePlaces}

InitClues == Called(ClueContents \X {None, Val("str", <<>>)})

SpecClues == InitClues /\ [][CallInferDate]_vars

\* clean_entry: records with and without a date, a mark and a location
CleanRecords ==
    {Page(<<"p", 1>>, Val("int", 1), date_entry, date_inferred, location, Val("str", content)) :
        date_entry \in {Absent, None, Val("str", May)},
        date_inferred \in {Absent, Val("bool", TRUE)},
        location \in {None, Val("str", Tokyo)},
        content \in {InTokyo, <<"I","t"," ","w","a","s"," ","c","o","l","d">>, <<"o","n"," ","7","/","4","/","1","9","3","3"," ","a","t"," ","s","e","a">>}}

InitCleanEntry == Called({<<entry>> : entry \in CleanRecords})

NextCleanEntry ==
    \/ CallCleanEntry
    \/ CallCleanEntryAgain

SpecCleanEntry == InitCleanEntry /\ [][NextCleanEntry]_vars

\* ---- the Combiner on pages whose numbers are repeated or missing

TownMet == <<"I"," ","m","e","t"," ","h","i","m"," ","i","n"," ","t","h","e"," ","t","o","w","n",".">>

LongJourney == <<"T","h","e"," ","j","o","u","r","n","e","y"," ","w","a","s"," ","l","o","n","g"," ","a","n","d"," ","h","a","r","d",".">>

PagePool ==
    {Page("", page_number, Absent, Absent, Absent, Val("str", content)) :
        page_number \in {Val("int", 1), Absent}, content \in {TownMet, LongJourney}}

InitPages ==
    /\ input_file \in Logbooks(PagePool, MaxEntries)
    /\ Start("combiner")

SpecPages == InitPages /\ [][Next]_vars

\* ---------------------------------------------------------- process_image

\* A PNG file of the input directory is [name, tesseract, google_vision,
\* openai_vision, metadata, writable]: what the digitizer meets when it works
\* on the file. The three methods give the confidence of what each engine
\* reads, in hundredths (0 when the engine fails or reads nothing); metadata
\* is the kind of value json.loads makes of the reply of extract_metadata;
\* writable tells whether the entry's files can be opened for writing.

\* lines 245-248: a method is the best when its confidence is above the best
Better(best, method_name, confidence) ==
    IF confidence > best[2] THEN <<method_name, confidence>> ELSE best

\* lines 231-248: <<best_method, best_confidence>>, the methods tried in order
BestOfMethods(file) ==
    Better(Better(Better(<<"none", 0>>, "tesseract", file.tesseract),
                  "google_vision", file.google_vision),
           "openai_vision", file.openai_vision)

\* best_text: what the best method read, "" when no method is the best
BestText(file, best_method) == IF best_method = "none" THEN <<>> ELSE <<"t","e","x","t">>

\* line 260: metadata.get raises AttributeError when the reply is no JSON object
ProcessRaises(file) == file.metadata # "dict"

\* lines 251-267: the LogbookEntry of the file, made at time t; the reply of
\* improve_text_with_gpt4 is the text it was given, and the metadata hold no
\* date and no location
LogbookEntry(file, best, t) ==
    [filename |-> file.name,
     page_number |-> _extract_page_number(file.name),
     date_entry |-> None,
     location |-> None,
     content |-> Val("str", BestText(file, best[1])),
     raw_ocr_text |-> Val("str", BestText(file, best[1])),
     confidence_score |-> best[2],
     processing_method |-> best[1],
     timestamp |-> IsoFormat(t)]

\* AIDigitizer.process_image, for a file on which it does not raise
process_image(file, t) == LogbookEntry(file, BestOfMethods(file), t)

\* --------------------------------------------------------- digitizer main

\* lines 308-326: the files are listed (max_files is not given) and the
\* clock is read for start_time
BatchStart ==
    /\ pc = "main"
    /\ tool = "digitizer"
    /\ \E t \in Readings :
          /\ now' = t
          /\ report' = [report EXCEPT !.start_time = IsoFormat(t)]
    /\ pc' = "batch"
    /\ UNCHANGED <<tool, input_file, outputs, logbook_data, loop_vars, out_entries,
                   result, err, call_vars, png_files, failed_files, processing_stats,
                   confidence_scores, written>>

\* entry.filename.replace('.png', ext)
EntryFile(filename, ext) == Sub(Lit(<<".","p","n","g">>), Const(ext), filename, NoFlags)

\* lines 349-357: the pass raised; the clock is read for the timestamp
Failure(file, error, t) ==
    /\ failed_files' = Append(failed_files,
                              [filename |-> file.name, error |-> error,
                               timestamp |-> IsoFormat(t)])
    /\ processing_stats' = [processing_stats EXCEPT !.failed = @ + 1]

\* lines 336-347 for an entry whose method is one of processing_stats' keys
Counted(file, entry, t) ==
    /\ confidence_scores' = Append(confidence_scores, entry.confidence_score)
    /\ IF file.writable
       THEN /\ processing_stats' =
                   [processing_stats EXCEPT ![entry.processing_method] = @ + 1]
            /\ failed_files' = failed_files
            /\ written' = written \o <<EntryFile(entry.filename, <<".","j","s","o","n">>),
                                       EntryFile(entry.filename, <<".","t","x","t">>)>>
       ELSE /\ failed_files' = Append(failed_files,
                                      [filename |-> file.name, error |-> "OSError",
                                       timestamp |-> IsoFormat(t)])
            /\ processing_stats' =
                   [processing_stats EXCEPT ![entry.processing_method] = @ + 1,
                                            !.failed = @ + 1]
            /\ written' = written

\* lines 333-357, process_image having returned entry
Processed(file, entry, t) ==
    /\ out_entries' = Append(out_entries, entry)
    /\ IF entry.processing_method \in DOMAIN processing_stats
       THEN Counted(file, entry, t)
       ELSE /\ Failure(file, "KeyError", t)
            /\ UNCHANGED <<confidence_scores, written>>

\* lines 329-357: one pass of the loop over png_files (i counts them); the
\* readings of the clock in one pass, by process_image and by the except
\* clause, give the same time
BatchStep ==
    /\ pc = "batch"
    /\ i < Len(png_files)
    /\ \E t \in Readings :
          /\ now' = t
          /\ IF ProcessRaises(png_files[i + 1])
             THEN /\ Failure(png_files[i + 1], "AttributeError", t)
                  /\ UNCHANGED <<out_entries, confidence_scores, written>>
             ELSE Processed(png_files[i + 1], process_image(png_files[i + 1], t), t)
    /\ i' = i + 1
    /\ UNCHANGED <<tool, input_file, outputs, logbook_data, sorted_entries, used_indices,
                   groups, j, group_entries, group_indices, result, pc, err, call_vars,
                   png_files, report>>

\* lines 368-390: the counts of the report (the rates and the confidence
\* distribution, which are computed from them, are left out)
Report(start_time, end_time) ==
    [start_time |-> start_time,
     end_time |-> end_time,
     total_files_attempted |-> Len(png_files),
     successful_files |-> Len(out_entries),
     failed_files |-> Len(failed_files),
     method_statistics |-> processing_stats,
     failed_list |-> failed_files]

\* lines 411-421: complete_data
CompleteData ==
    [entries |-> out_entries,
     metadata |-> [NoMetadata EXCEPT !.total_entries = Val("int", Len(out_entries))]]

\* lines 359-424: the report and the complete dataset are made and written;
\* the lists of the failed files are written when there is one (lines 397-409)
BatchFinish ==
    /\ pc = "batch"
    /\ i >= Len(png_files)
    /\ \E t \in Readings :
          /\ now' = t
          /\ report' = Report(report.start_time, IsoFormat(t))
    /\ result' = CompleteData
    /\ written' = written \o <<<<"p","r","o","c","e","s","s","i","n","g","_","r","e","p","o","r","t",".","j","s","o","n">>>>
                          \o (IF failed_files # <<>>
                              THEN <<<<"f","a","i","l","e","d","_","f","i","l","e","s",".","j","s","o","n">>, <<"f","a","i","l","e","d","_","f","i","l","e","s",".","t","x","t">>>>
                              ELSE <<>>)
                          \o <<<<"c","o","m","p","l","e","t","e","_","l","o","g","b","o","o","k",".","j","s","o","n">>>>
    /\ pc' = "reported"
    /\ UNCHANGED <<tool, input_file, outputs, logbook_data, loop_vars, out_entries, err,
                   call_vars, png_files, failed_files, processing_stats,
                   confidence_scores>>

NextDigitizer ==
    \/ BatchStart
    \/ BatchStep
    \/ BatchFinish

\* ---- the digitizer on batches of files

\* the name of the file at place n of the directory
PngName(n) == IntStr(n) \o <<".","p","n","g">>

\* what the digitizer can meet on a file
PngFiles ==
    [name : {<<>>}, tesseract : {0, 90}, google_vision : {0, 100},
     openai_vision : {0, 85}, metadata : {"dict", "list"}, writable : BOOLEAN]

\* the longest batch
MaxFiles == 2

Batches ==
    {[n \in 1..Len(files) |-> [files[n] EXCEPT !.name = PngName(n)]] :
        files \in Lists(PngFiles, 0, MaxFiles)}

InitBatch ==
    /\ tool = "digitizer"
    /\ input_file = NoResult
    /\ outputs = <<>>
    /\ logbook_data = NoResult
    /\ now = 0
    /\ pc = "main"
    /\ png_files \in Batches
    /\ Fresh
    /\ NoCall

SpecBatch == InitBatch /\ [][NextDigitizer]_vars

\* ---- create_document_groups on lists of pages in a row

\* a page that is a sentence of its own
Sentence == <<"W","e"," ","l","e","f","t"," ","K","o","b","e"," ","o","n"," ","M","o","n","d","a","y",".">>

\* a page that starts and ends in the middle of a sentence
Link == <<"a","n","d"," ","t","h","e","n"," ","w","e"," ","s","a","i","l","e","d"," ","o","n"," ","t","o"," ","t","h","e">>

\* a page that starts a sentence and ends in the middle of it
Opening == <<"T","h","e"," ","s","h","i","p"," ","s","a","i","l","e","d"," ","a","n","d"," ","w","e"," ","s","a","w"," ","t","h","e">>

\* the pages texts[1], texts[2], ... numbered from 1, with no date or location
ChainOf(texts) ==
    [n \in 1..Len(texts) |->
        Page(<<"p", n>>, Val("int", n), Absent, Absent, Absent, Val("str", texts[n]))]

\* the longest list made of every choice of texts
MaxChain == 2

\* the longest list of Links
LongRun == 11

Chains ==
    {ChainOf(texts) : texts \in Lists({Sentence, Link, Opening, ColdIndeed}, 1, MaxChain)}
    \cup {ChainOf(<<Opening, Sentence, Link>>), ChainOf(<<ColdIndeed, Sentence, ColdIndeed>>),
          ChainOf(<<Opening, Link, Sentence, Link>>)}
    \cup {ChainOf([n \in 1..len |-> Link]) : len \in (LongRun - 1)..LongRun}

InitChain ==
    /\ input_file \in {[entries |-> es, metadata |-> InputMetadata] : es \in Chains}
    /\ Start("combiner")

\* process_logbook as far as create_document_groups returns
NextChain ==
    \/ Load
    \/ CombinerStart
    \/ OuterStep
    \/ InnerStep
    \/ CloseGroup

SpecChain == InitChain /\ [][NextChain]_vars

\* ------------------------------------------------------------- properties

\* the content of an entry as create_document_groups measures it
Stripped(e) == Strip(ContentOf(e))

\* C1: a record whose stripped content is shorter than 20 characters, the
\* empty content included, never opens a group: the first entry of every
\* DocumentGroup made by create_document_groups has a stripped content of at
\* least 20 characters.
ShortNeverOpens ==
    \A n \in 1..Len(groups) : Len(Stripped(groups[n].entries[1])) >= 20

\* a short record came first in the page order, was looked at and passed over,
\* and the record after it opened the only group
ShortPassedOver ==
    /\ pc = "saved"
    /\ Len(sorted_entries) = 2
    /\ Len(Stripped(sorted_entries[1])) < 20
    /\ Len(groups) = 1
    /\ groups[1].entries = <<sorted_entries[2]>>

\* C2: three records with consecutive page numbers, one date and one location
\* (a greeting of at least 20 characters, a body that ends in the middle of a
\* sentence, a closing with the signature) come out of create_document_groups
\* as exactly one DocumentGroup that holds all three, of type 'letter' and
\* complete.
LetterIsOneDocument ==
    pc = "returned" =>
        /\ Len(groups) = 1
        /\ Len(groups[1].entries) = 3
        /\ groups[1].document_type = "letter"
        /\ groups[1].is_complete

\* the content ends with a lower-case letter (a to z, as the Combiner reads
\* it), a comma, a semicolon or three full stops
EndsIncompletely(content) ==
    /\ content # <<>>
    /\ \/ content[Len(content)] \in LowerSet \cup {",", ";"}
       \/ EndsWith(content, <<".", ".", ".">>)

StartsInLowerCase(content) == content # <<>> /\ content[1] \in LowerSet

\* C3: when the content of the first record ends incomplete and the content
\* of the second starts with a lower-case letter, is_continuation returns
\* (True, c) with c >= 0.5, whatever the page numbers, dates, locations and
\* types of the two records are.
FlowIsContinuation ==
    (/\ pc = "done"
     /\ EndsIncompletely(Stripped(args[1]))
     /\ StartsInLowerCase(Stripped(args[2])))
    => (value[1] /\ FGe(value[2], F05))

\* the two records have nothing else in common: no page number, date or
\* location, and the confidence is 0.3 + 0.3
FlowAlone ==
    /\ pc = "done"
    /\ EndsIncompletely(Stripped(args[1]))
    /\ StartsInLowerCase(Stripped(args[2]))
    /\ args[1].page_number = None
    /\ args[2].page_number = Absent
    /\ value = <<TRUE, FAdd(F03, F03)>>

\* contents that hold no date
Undated == {Val("str", <<>>), Val("str", <<"I","t"," ","w","a","s"," ","c","o","l","d">>)}

\* C4: when the content holds no explicit date and the location is a place
\* of the itinerary, infer_date_from_content returns the date of that place,
\* the empty content included: infer_date_from_content("", "Tokyo") is "1933-07".
ItineraryDate ==
    (pc = "done" /\ args[1] \in Undated /\ args[2] = Val("str", Tokyo))
    => value = Val("str", July)

\* C5: for every record that has an explicit, non-empty date_entry,
\* clean_entry returns a record with the same date_entry and with
\* date_inferred False, whatever its content and location are.
ExplicitDateKept ==
    tool = "cleaner" =>
        \A n \in 1..Len(out_entries) :
            Truthy(logbook_data.entries[n].date_entry) =>
                /\ out_entries[n].date_entry = logbook_data.entries[n].date_entry
                /\ out_entries[n].date_inferred = Val("bool", FALSE)

\* a record dated May, marked as inferred, whose content and location name
\* Tokyo (a place of July) has been cleaned
DatedRecordCleaned ==
    /\ tool = "cleaner"
    /\ Len(out_entries) >= 1
    /\ logbook_data.entries[1].date_entry = Val("str", May)
    /\ logbook_data.entries[1].date_inferred = Val("bool", TRUE)
    /\ logbook_data.entries[1].location = Val("str", Tokyo)
    /\ out_entries[1].date_entry = Val("str", May)

\* C6: clean_text is idempotent: clean_text(clean_text(t)) = clean_text(t)
\* for every text t.
CleanTextIdempotent == pc = "twice" => value[2] = value[1]

\* the output of a run without the time stamps: cleaned_date and
\* combined_date of the metadata, timestamp of a combined record
Unstamped(output) ==
    [entries |-> [n \in 1..Len(output.entries) |->
                     IF "timestamp" \in DOMAIN output.entries[n]
                     THEN [output.entries[n] EXCEPT !.timestamp = <<>>]
                     ELSE output.entries[n]],
     metadata |-> [output.metadata EXCEPT !.cleaned_date = Absent,
                                          !.combined_date = Absent]]

NullFieldsTolerated ==
    (\A n \in 1..Len(input_file.entries) : input_file.entries[n].content.k = "str")
    => err = ""

\* no two blanks in a row, no blank at either end
Collapsed(text) ==
    /\ \A n \in 1..(Len(text) - 1) : ~(text[n] \in SpaceSet /\ text[n + 1] \in SpaceSet)
    /\ text = <<>> \/ (text[1] \notin SpaceSet /\ text[Len(text)] \notin SpaceSet)

\* C9: after clean_entry content is a string, never null, and it is the
\* whitespace-collapsed text, for every record, the record whose content is
\* null or absent included.
ContentIsText ==
    tool = "cleaner" =>
        \A n \in 1..Len(out_entries) :
            /\ out_entries[n].content.k = "str"
            /\ Collapsed(out_entries[n].content.v)

\* C10: combine_entries of a list of exactly one record returns the content
\* of that record unchanged: no marker is removed, no blank is touched.
SingleUnchanged ==
    (pc = "done" /\ Len(args[1]) = 1) => value = GetOrEmpty(args[1][1].content)

\* the one record's content starts with a page marker and holds two blanks
\* in a row, and it is returned as it is
MarkedSingleReturned ==
    /\ pc = "done"
    /\ Len(args[1]) = 1
    /\ Search(LeadPageNumber, args[1][1].content.v, IC)
    /\ ~Collapsed(args[1][1].content.v)
    /\ value = args[1][1].content

\* the places (group, place in the group) where the record of a file is
PlacesOf(filename) ==
    {gm \in (1..Len(groups)) \X (1..Len(sorted_entries)) :
        /\ gm[2] <= Len(groups[gm[1]].entries)
        /\ groups[gm[1]].entries[gm[2]].filename = filename}

\* C11: no record is consumed twice: every record of the page-sorted list is
\* in the entries of at most one DocumentGroup, and the members of a closed
\* group are never absorbed again by a later group.
NoRecordTwice ==
    /\ \A n \in 1..Len(sorted_entries) :
          Cardinality(PlacesOf(sorted_entries[n].filename)) <= 1
    /\ pc \in {"inner", "close"} => group_indices \cap used_indices = {}

\* the inner loop of a later group stands at a record that a closed group
\* holds, and passes it over
UsedPassedOver ==
    /\ pc = "inner"
    /\ j < InnerStop(i, Len(sorted_entries))
    /\ j \in used_indices
    /\ PlacesOf(sorted_entries[j + 1].filename) # {}

\* C12: when create_document_groups has returned, every record whose
\* stripped content has at least 20 characters is in exactly one
\* DocumentGroup, and a record with a shorter content is in a group only as a
\* member that is not the first (absorbed as a continuation) or in no group.
GroupingCovers ==
    pc = "convert" =>
        \A n \in 1..Len(sorted_entries) :
            IF Len(Stripped(sorted_entries[n])) >= 20
            THEN Cardinality(PlacesOf(sorted_entries[n].filename)) = 1
            ELSE \A gm \in PlacesOf(sorted_entries[n].filename) : gm[2] > 1

\* of two short records one was dropped and the other absorbed by the group
\* of the long record between them
ShortDroppedAndAbsorbed ==
    /\ pc = "convert"
    /\ Len(sorted_entries) = 3
    /\ Len(Stripped(sorted_entries[1])) < 20
    /\ Len(Stripped(sorted_entries[3])) < 20
    /\ PlacesOf(sorted_entries[1].filename) = {}
    /\ PlacesOf(sorted_entries[3].filename) = {<<1, 2>>}

\* the inner loop stands at a candidate that it tests: one inside the window
\* that no closed group holds
Testing == pc = "inner" /\ j < InnerStop(i, Len(sorted_entries)) /\ j \notin used_indices

\* what is_continuation returned, against what the loop did with the candidate
VerdictFollowed(r, absorbed) == (absorbed <=> r[1]) /\ (r[1] <=> FGe(r[2], F05))

\* C13: a candidate inside the lookahead window is absorbed into the open
\* group exactly when is_continuation(last member, candidate) returns True,
\* and is_continuation returns True exactly when its confidence is >= 0.5: a
\* candidate whose confidence is exactly 0.5 is absorbed.
AbsorbedIffContinuation ==
    [][Testing =>
          VerdictFollowed(is_continuation(group_entries[Len(group_entries)],
                                          sorted_entries[j + 1]),
                          Len(group_entries') > Len(group_entries))]_vars

\* C14 as stated: a group that has at least 2 members is closed only after
\* two candidates in a row have failed the continuation test: when a failing
\* candidate closes the group, the candidate tested before it failed too.
ClosedAfterTwoFailures ==
    [][(Testing /\ pc' = "close") =>
          \E k \in (i + 1)..(j - 1) :
              /\ k \notin used_indices
              /\ k \notin group_indices
              /\ \A m \in (k + 1)..(j - 1) : m \in used_indices]_vars

\* C14, amended: a group that has at least 2 members is closed by the first
\* candidate that fails the continuation test: a single candidate that does
\* not continue the group closes it, and a continuing candidate that follows
\* the failed one is not absorbed.
ClosedAtFirstFailure ==
    [][(Testing /\ Len(group_entries) > 1) =>
          (pc' # "inner" \/ Len(group_entries') > Len(group_entries))]_vars

\* a group of two is closed by the first failure, with the page after the
\* failed one, which continues the group, still inside the window
ClosedBeforeContinuing ==
    /\ pc = "close"
    /\ Len(group_entries) = 2
    /\ j + 1 < InnerStop(i, Len(sorted_entries))
    /\ Absorbs(group_entries[2], sorted_entries[j + 2])

WindowOfTen ==
    [][/\ (pc = "inner" /\ pc' = "close" /\ j < Len(sorted_entries) /\ j <= i + 10) =>
              (/\ Len(group_entries) > 1
               /\ ~Absorbs(group_entries[Len(group_entries)], sorted_entries[j + 1]))
       /\ \A k \in group_indices' : k <= i' + 10]_vars

\* the groups that hold the record at place n (from 1) of the sorted list
GroupsOf(n) == {gm[1] : gm \in PlacesOf(sorted_entries[n].filename)}

\* the records at places n and n + 1 have page numbers in a row, and the
\* second continues the first with a confidence above 0.5
Chained(n) ==
    /\ sorted_entries[n + 1].page_number.v = sorted_entries[n].page_number.v + 1
    /\ Absorbs(sorted_entries[n], sorted_entries[n + 1])

AnchorPlace(g) ==
    CHOOSE n \in 1..Len(sorted_entries) :
        sorted_entries[n].filename = groups[g].entries[1].filename

SupplierInferred(g) ==
    /\ BestDateMember(g.entries) # 0
    /\ g.entries[BestDateMember(g.entries)].date_inferred = Val("bool", TRUE)

\* C18: the date_inferred of a DocumentGroup is true only if its date_entry
\* is non-null and the member that supplied the date has date_inferred true;
\* a group whose date_entry is null, or whose date was taken from the source
\* text, has date_inferred false, and so has the record written for it.
GroupDateInferredIsInference ==
    /\ \A g \in 1..Len(groups) :
          /\ groups[g].date_inferred.k = "bool"
          /\ groups[g].date_inferred.v
                <=> (groups[g].date_entry # None /\ SupplierInferred(groups[g]))
    /\ (tool = "combiner" /\ pc = "convert") =>
          \A n \in 1..Len(out_entries) :
              out_entries[n].date_inferred = groups[n].date_inferred

\* C19: for a record with no date_entry clean_entry sets date_inferred to
\* True in the record it returns, and to False for any other record, so
\* that date_inferred is defined in every cleaned record, the one for which
\* no date is inferred included.
DateInferredAlwaysSet ==
    tool = "cleaner" =>
        \A n \in 1..Len(out_entries) :
            out_entries[n].date_inferred
                = Val("bool", ~Truthy(logbook_data.entries[n].date_entry))

\* contents in which no type finds a recipient, a sender, an origin, a
\* subject or a heading
NothingToExtract == {TokyoCold, <<>>}

\* "Notes from {location}", else "Entry from {date}", else "Logbook Entry"
NotesOrEntry(location, date) ==
    IF Truthy(location) THEN <<"N","o","t","e","s"," ","f","r","o","m"," ">> \o location.v
    ELSE IF Truthy(date) THEN <<"E","n","t","r","y"," ","f","r","o","m"," ">> \o date.v
    ELSE <<"L","o","g","b","o","o","k"," ","E","n","t","r","y">>

\* C20 as stated: for every document type, when the type-specific extraction
\* finds nothing, create_document_title returns "Notes from {location}" if a
\* location is known, else "Entry from {date}" if a date is known, else
\* "Logbook Entry".
FallbackForEveryType ==
    (pc = "done" /\ args[2] \in NothingToExtract)
        => value = NotesOrEntry(args[3], args[4])

\* C20, amended: when the type-specific extraction finds nothing, a letter
\* is titled "Personal Letter", a telegram "Telegram", a report "Business
\* Report" and a list "Equipment List", whatever the location and the date;
\* for the narrative type and for any other type the title is "Notes from
\* {location}" if a location is known, else "Entry from {date}" if a date is
\* known, else "Logbook Entry".
TypeFallbacks ==
    (pc = "done" /\ args[2] \in NothingToExtract) =>
        value = CASE args[1] = "letter" -> <<"P","e","r","s","o","n","a","l"," ","L","e","t","t","e","r">>
                  [] args[1] = "telegram" -> <<"T","e","l","e","g","r","a","m">>
                  [] args[1] = "report" -> <<"B","u","s","i","n","e","s","s"," ","R","e","p","o","r","t">>
                  [] args[1] = "list" -> <<"E","q","u","i","p","m","e","n","t"," ","L","i","s","t">>
                  [] OTHER -> NotesOrEntry(args[3], args[4])

\* a letter with nothing to extract, of a known place and date, has been
\* titled "Personal Letter"
LetterTitledByType ==
    /\ pc = "done"
    /\ args = <<"letter", TokyoCold, Val("str", Tokyo), Val("str", July)>>
    /\ value = <<"P","e","r","s","o","n","a","l"," ","L","e","t","t","e","r">>

\* the fragments combine_entries has made of its entries before it joins them
Fragments(entries) == CombineLoop(entries, 1, <<>>)

\* C21: in combine_entries on two or more records a fragment that is not a
\* continuation of the one before it is separated from it by a paragraph
\* break (a blank line) in the returned text, and the final clean-up leaves
\* the paragraph breaks in place: the text returned for two or more
\* fragments holds a blank line.
ParagraphBreaksKept ==
    (pc = "done" /\ Len(args[1]) >= 2 /\ Len(Fragments(args[1])) >= 2)
        => Contains(value.v, <<"\n", "\n">>)

\* C22: the date signal of is_continuation adds 0.3 when both records have
\* equal dates and 0.1 when exactly one of the two records has a date,
\* whichever of the two it is.
DateBonusSymmetric ==
    pc = "done" =>
        DateSignal(args[1], args[2], F00)
            = IF /\ DateTruthy(args[1]) /\ DateTruthy(args[2])
                 /\ args[1].date_entry = args[2].date_entry
              THEN F03
              ELSE IF DateTruthy(args[1]) # DateTruthy(args[2]) THEN F01 ELSE F00

\* C23: the uncleaned OCR text of every page is retained: the record that
\* clean_entry returns has the raw_ocr_text of the record it was given, and
\* the record the Combiner emits for a group holds the raw text of the
\* pages of the group.
RawTextRetained ==
    /\ (tool = "cleaner" /\ pc = "clean_logbook") =>
          \A n \in 1..Len(out_entries) :
              out_entries[n].raw_ocr_text = logbook_data.entries[n].raw_ocr_text
    /\ (tool = "combiner" /\ pc = "convert") =>
          \A n \in 1..Len(out_entries) : \A m \in 1..Len(groups[n].entries) :
              /\ out_entries[n].raw_ocr_text.k = "str"
              /\ Contains(out_entries[n].raw_ocr_text.v,
                          GetOrEmpty(groups[n].entries[m].raw_ocr_text).v)

\* the scores of a content for the types letter, telegram, report, list and
\* narrative, in this order
ScoresOf(content) ==
    <<TypeScore("letter", content), TypeScore("telegram", content),
      TypeScore("report", content), TypeScore("list", content),
      TypeScore("narrative", content)>>

\* place n holds the top score and no place before it does
FirstTop(scores, n) ==
    /\ \A m \in 1..5 : ~FLt(scores[n], scores[m])
    /\ \A m \in 1..(n - 1) : FLt(scores[m], scores[n])

\* what is returned for the scores when place n is taken as the best
ReturnedFor(scores, n) ==
    <<IF FLt(scores[n], F03) THEN "unknown"
      ELSE <<"letter", "telegram", "report", "list", "narrative">>[n],
      scores[n]>>

TieBroken(scores, returned) ==
    \E n \in 1..5 : FirstTop(scores, n) /\ returned = ReturnedFor(scores, n)

ClueDate(content_lower) ==
    IF /\ Contains(content_lower, <<"a","r","r","i","v","e","d"," ","i","n"," ","j","a","p","a","n">>)
       /\ Contains(content_lower, <<"t","e","n","t","h"," ","o","f"," ","j","u","l","y">>)
    THEN Val("str", <<"1","9","3","3","-","0","7","-","1","0">>)
    ELSE IF /\ Contains(content_lower, <<"f","e","b","r","u","a","r","y">>)
            /\ Contains(content_lower, <<"l","o","n","d","o","n">>)
         THEN Val("str", <<"1","9","3","3","-","0","2","-","0","8">>)
         ELSE IF /\ Contains(content_lower, <<"j","a","n","u","a","r","y">>)
                 /\ \/ Contains(content_lower, <<"c","h","i","c","a","g","o">>)
                    \/ Contains(content_lower, <<"h","a","r","r","i","s">>)
              THEN Val("str", <<"1","9","3","3","-","0","1","-","3","0">>)
              ELSE None

\* C25: each special case of infer_date_from_content can decide the result:
\* with no location and no explicit date in the content, a content that
\* holds 'arrived in japan' and 'tenth of july' yields '1933-07-10', one that
\* holds 'february' and 'london' yields '1933-02-08', and one that holds
\* 'january' and 'chicago' or 'harris' yields '1933-01-30'.
SequentialCluesDecide ==
    (pc = "done" /\ ~Truthy(args[2]) /\ ClueDate(StrLower(args[1].v)) # None)
        => value = ClueDate(StrLower(args[1].v))

\* the place (from 1) in the sorted list of the record of a file
PlaceIn(filename) ==
    CHOOSE n \in 1..Len(sorted_entries) : sorted_entries[n].filename = filename

\* C26: groups are made of adjacent pages: the members of each DocumentGroup
\* are at places in a row of the page-sorted list, so that no record of
\* another group or of no group lies between two members of a group.
GroupsAreAdjacent ==
    \A g \in 1..Len(groups) : \A m \in 1..(Len(groups[g].entries) - 1) :
        PlaceIn(groups[g].entries[m + 1].filename)
            = PlaceIn(groups[g].entries[m].filename) + 1

\* C27: the Cleaner and the Combiner treat their input as immutable: when
\* clean_logbook or process_logbook has returned, the collection passed to
\* it (its entries and its metadata) is equal to what it was before the
\* call, and the additions are in the returned value only.
InputUntouched ==
    pc \in {"returned", "saved"} =>
        /\ logbook_data.entries = input_file.entries
        /\ logbook_data.metadata = input_file.metadata

\* C28: clean_entry is idempotent on records: clean_entry(clean_entry(r)) is
\* clean_entry(r) for every record r, and a date that the first pass
\* inferred is still marked date_inferred True after the second pass.
CleanEntryIdempotent == pc = "twice" => value[2] = value[1]

\* C29: output identifiers are unique: for a list of records with distinct
\* file names no two DocumentGroups of a run have the same id, and no two
\* records that process_logbook emits have the same filename, the runs on
\* missing or repeated page numbers included.
IdsUnique ==
    /\ \A g \in 1..Len(groups) : \A h \in 1..Len(groups) :
          groups[g].id = groups[h].id => g = h
    /\ tool = "combiner" =>
          \A n \in 1..Len(out_entries) : \A m \in 1..Len(out_entries) :
              out_entries[n].filename = out_entries[m].filename => n = m

\* the entries of the complete dataset that were made of the file
DatasetEntries(filename) ==
    {n \in 1..Len(result.entries) : result.entries[n].filename = filename}

\* C30: in the digitization batch every attempted PNG file is accounted for
\* exactly once: at the end of the run successful_files + failed_files is
\* total_files_attempted, the counts of tesseract, google_vision and
\* openai_vision sum to successful_files, and a file recorded in failed_files
\* has no entry in the complete dataset, also when every engine returns
\* confidence 0 for a file or when the saving of an entry's files raises.
EveryFileOnce ==
    pc = "reported" =>
        /\ report.successful_files + report.failed_files = report.total_files_attempted
        /\ report.method_statistics.tesseract + report.method_statistics.google_vision
              + report.method_statistics.openai_vision = report.successful_files
        /\ \A n \in 1..Len(report.failed_list) :
              DatasetEntries(report.failed_list[n].filename) = {}

====
